---- MODULE Spec2Model ----
(***************************************************************************)
(* News-and-events media handling of the stcc backend: the upload          *)
(* middleware, the request validators, the create / update / delete        *)
(* controllers, the image table access layer and the media path resolver   *)
(* (getRelativePath, deleteFile, deleteFiles).                             *)
(*                                                                         *)
(* A string that names an image is modelled by its structure:              *)
(*   kind  "url" (starts with http:// or https://), "path" (any other      *)
(*         non-empty string), "empty" (""), "null", "undefined"            *)
(*   host  the host of a url                                               *)
(*   lead  a path starts with "/"                                          *)
(*   dirs  the directory segments before the last segment                  *)
(*   name  the last segment (the file name); uploaded files get the names  *)
(*         1, 2, ... in the order multer stores them; a negative name is   *)
(*         a file name that multer never generates                         *)
(***************************************************************************)
EXTENDS Integers, Sequences, FiniteSets, TLC

\* ------------------------------------------------------------------ bounds
MaxReqs == 2     \* requests handled in one behaviour
MaxItems == 2    \* news items created in one behaviour
MaxFiles == 2    \* files uploaded in one behaviour
MaxList == 2     \* length of a submitted images list

\* ------------------------------------------------------------------ strings
OwnHost == "localhost:3000"
ExtHost == "cdn.example.com"
CoverDir == "cover-images"
NewsDir == "news-images"
ImageDirs == {CoverDir, NewsDir}

Str(k, h, l, d, n) == [kind |-> k, host |-> h, lead |-> l, dirs |-> d, name |-> n]
Null == Str("null", "", FALSE, <<>>, 0)
Undefined == Str("undefined", "", FALSE, <<>>, 0)
EmptyStr == Str("empty", "", FALSE, <<>>, 0)
Url(h, d, n) == Str("url", h, TRUE, d, n)
Path(l, d, n) == Str("path", "", l, d, n)

\* "/cover-images/<n>" or "/news-images/<n>": the form the database stores
Rel(dir, n) == Path(TRUE, <<dir>>, n)
\* "http://localhost:3000/public/uploads/<dir>/<n>"
LocalUrl(dir, n) == Url(OwnHost, <<"public", "uploads", dir>>, n)
\* "https://cdn.example.com/img/<n>"
ExtUrl(n) == Url(ExtHost, <<"img">>, n)
\* "https://cdn.example.com/uploads/<dir>/<n>"
ExtUploadsUrl(dir, n) == Url(ExtHost, <<"uploads", dir>>, n)
\* "https://cdn.example.com/localhost/<n>"
ExtLocalhostUrl(n) == Url(ExtHost, <<"localhost">>, n)

Falsy(s) == s.kind \in {"null", "undefined", "empty"}

\* ------------------------------------------------------------------ upload.js
\* The leftmost place where /uploads/(cover-images|news-images)/ matches.
UploadsAt(dirs) ==
  {i \in 1..(Len(dirs) - 1) : dirs[i] = "uploads" /\ dirs[i + 1] \in ImageDirs}

TypeDir(fileType) == IF fileType = "cover" THEN CoverDir ELSE NewsDir

getRelativePath(filePath, fileType) ==
  IF Falsy(filePath) THEN Null
  ELSE IF filePath.kind = "url"
  THEN IF UploadsAt(filePath.dirs) # {}
       THEN LET i == CHOOSE k \in UploadsAt(filePath.dirs) :
                       \A j \in UploadsAt(filePath.dirs) : k <= j
            IN  Path(TRUE, SubSeq(filePath.dirs, i + 1, Len(filePath.dirs)), filePath.name)
       ELSE filePath
  ELSE IF filePath.lead /\ Len(filePath.dirs) >= 1 /\ filePath.dirs[1] \in ImageDirs
  THEN filePath
  ELSE IF fileType \in {"cover", "news"}
  THEN Path(TRUE, <<TypeDir(fileType)>>, filePath.name)
  ELSE filePath

\* fileUrl.includes(baseUrl) with BASE_URL unset, and fileUrl.includes("localhost")
IncludesBaseUrl(s) == s.host = OwnHost
IncludesLocalhost(s) ==
  s.host = OwnHost \/ \E i \in 1..Len(s.dirs) : s.dirs[i] = "localhost"

\* The file name deleteFile joins to the directory: <<sub directories, name>>.
extractFilenameFromUrl(url) ==
  IF url.kind = "path" /\ url.lead /\ Len(url.dirs) >= 1 /\ url.dirs[1] \in ImageDirs
  THEN <<(<<>>), url.name>>
  ELSE IF url.kind # "url"
  THEN <<url.dirs, url.name>>
  ELSE <<(<<>>), url.name>>

\* One deleteFile call on disk d: what it looked at and what came of it.
\*   "none"     no url given, resolve(false)
\*   "external" skipped as an external url, resolve(false)
\*   "absent"   the file is not there, resolve(false)
\*   "unlinked" removed, resolve(true)
\*   "failed"   fs.unlink failed, reject(err)
deleteFile(d, fileUrl, fileType, unlinkFails) ==
  LET fn == extractFilenameFromUrl(fileUrl)
      target == <<TypeDir(fileType), fn[2]>>
  IN  IF Falsy(fileUrl)
      THEN [url |-> fileUrl, type |-> fileType, file |-> <<"", 0>>, result |-> "none"]
      ELSE IF fileUrl.kind = "url" /\ ~IncludesBaseUrl(fileUrl) /\ ~IncludesLocalhost(fileUrl)
      THEN [url |-> fileUrl, type |-> fileType, file |-> <<"", 0>>, result |-> "external"]
      ELSE IF fn[1] = <<>> /\ target \in d
      THEN [url |-> fileUrl, type |-> fileType, file |-> target,
            result |-> IF unlinkFails THEN "failed" ELSE "unlinked"]
      ELSE [url |-> fileUrl, type |-> fileType, file |-> target, result |-> "absent"]

\* A variant that attempts no deletion.
deleteFilesNone(d, fileUrls, fileType, unlinkFails) == {}

\* deleteFiles: one deleteFile per url, all settled before it returns.
deleteFiles(d, fileUrls, fileType, unlinkFails) ==
  {deleteFile(d, fileUrls[i], fileType, unlinkFails) : i \in 1..Len(fileUrls)}

Unlinked(calls) == {c.file : c \in {x \in calls : x.result = "unlinked"}}
Attempted(calls) == {c.file : c \in {x \in calls : x.result \in {"unlinked", "failed", "absent"}}}
FailedUnlinks(calls) == {c.file : c \in {x \in calls : x.result = "failed"}}

\* ------------------------------------------------------------------ state
VARIABLES
  categories,    \* table categories: id -> [slug]
  nextCategoryId, \* AUTO_INCREMENT of table categories
  admins,        \* table admins: id -> [email, name, password]
  news,          \* table news_and_events: id -> [category_id, cover_image]
  images,        \* table news_and_events_images: a set of rows
  disk,          \* files under public/uploads: <<directory, name>>
  nextNewsId,    \* AUTO_INCREMENT of news_and_events
  nextImageId,   \* AUTO_INCREMENT of news_and_events_images
  nextFile,      \* the next generated upload file name
  reqs,          \* requests handled so far; request k runs at time k (NOW())
  unlinkFailed,  \* history: files whose fs.unlink failed in some request
  prev,          \* history: the request before the last one
  last,          \* history: the last request, its inputs and what it did
  procs,         \* the requests in flight when handlers interleave at their awaits
  resp           \* history: the last response as the client sees it

vars == <<categories, nextCategoryId, admins, news, images, disk, nextNewsId,
          nextImageId, nextFile, reqs, unlinkFailed, prev, last, procs, resp>>

\* ------------------------------------------------------------------ NewsAndEventsImage.js
RowLess(a, b) ==
  \/ a.image_order < b.image_order
  \/ /\ a.image_order = b.image_order
     /\ \/ a.created_at < b.created_at
        \/ a.created_at = b.created_at /\ a.id < b.id

RECURSIVE SortRows(_)
SortRows(S) ==
  IF S = {} THEN <<>>
  ELSE LET m == CHOOSE r \in S : \A o \in S \ {r} : RowLess(r, o)
       IN  <<m>> \o SortRows(S \ {m})

\* SELECT ... WHERE news_and_events_id = ? ORDER BY image_order ASC, created_at ASC
\* (rows equal in both keys come in insertion order)
findByNewsAndEventsId(rows, newsAndEventsId) ==
  SortRows({r \in rows : r.news_and_events_id = newsAndEventsId})

create(newsAndEventsId, imageUrl, imageOrder, id, now) ==
  [id |-> id, news_and_events_id |-> newsAndEventsId, image_url |-> imageUrl,
   image_order |-> imageOrder, created_at |-> now]

\* A variant that numbers the rows from the last url to the first.
createMultipleReversed(newsAndEventsId, urls, firstId, now, n) ==
  {create(newsAndEventsId, urls[i], n - i, firstId + i - 1, now) : i \in 1..n}

\* The rows the first n iterations of createMultiple's loop insert:
\* the i-th url (counting from 0) gets image_order i.
createMultiple(newsAndEventsId, urls, firstId, now, n) ==
  {create(newsAndEventsId, urls[i], i - 1, firstId + i - 1, now) : i \in 1..n}

\* DELETE FROM news_and_events_images WHERE id = ?
delete(rows, id) == {r \in rows : r.id # id}

\* A variant that deletes nothing.
deleteByNewsAndEventsIdNothing(rows, newsAndEventsId) == rows

\* DELETE FROM news_and_events_images WHERE news_and_events_id = ?
deleteByNewsAndEventsId(rows, newsAndEventsId) ==
  {r \in rows : r.news_and_events_id # newsAndEventsId}

\* ------------------------------------------------------------------ requests
\* cover_image of a request: src "none" (not sent), "file" (uploaded) or
\* "body" (val: "", null or a string).
\* images of a request: src "none", "files" (n uploaded files) or "body"
\* (form "empty" for "", "null", or "list" for an array, a JSON array string
\* or a single string, which the controller wraps into a one-element list).
CoverIn(src, val) == [src |-> src, val |-> val]
ImagesIn(src, n, form, list) == [src |-> src, n |-> n, form |-> form, list |-> list]
NoCover == CoverIn("none", Undefined)
NoImages == ImagesIn("none", 0, "none", <<>>)

Includes(seq, x) == \E i \in 1..Len(seq) : seq[i] = x
\* oldImages.map((img) => img.image_url)
ImageUrlsOf(rows) == [i \in 1..Len(rows) |-> rows[i].image_url]
Range(seq) == {seq[i] : i \in 1..Len(seq)}

\* uploadFiles (multer): the cover file first, then the gallery files, each
\* under a fresh generated name, in the directory of its field.
CoverFileName(cover, first) == first
ImageFileNames(cover, imgs, first) ==
  LET base == IF cover.src = "file" THEN first + 1 ELSE first
  IN  [i \in 1..(IF imgs.src = "files" THEN imgs.n ELSE 0) |-> base + i - 1]
FilesUploaded(cover, imgs) ==
  (IF cover.src = "file" THEN 1 ELSE 0) + (IF imgs.src = "files" THEN imgs.n ELSE 0)
handleFileUpload(d, cover, imgs, first) ==
  d \cup (IF cover.src = "file" THEN {<<CoverDir, CoverFileName(cover, first)>>} ELSE {})
    \cup {<<NewsDir, ImageFileNames(cover, imgs, first)[i]>> :
            i \in 1..Len(ImageFileNames(cover, imgs, first))}

\* validateNewsCreate / validateNewsUpdate, body("cover_image"):
\* optional; "", null or a string matching ^https?://.+ pass.
ValidCoverImage(cover) ==
  cover.src # "body" \/ Falsy(cover.val) \/ cover.val.kind = "url"

\* path.join("uploads/cover-images", file.filename) and its news twin
UploadedPath(dir, name) == Path(FALSE, <<"uploads", dir>>, name)

\* ------------------------------------------------------------------ newsAndEventsController.js
\* What a request leaves behind: the response code, the tables, the disk and,
\* for the history, what the handler computed on the way.
Result(code, n, im, d) ==
  [code |-> code, news |-> n, images |-> im, disk |-> d, calls |-> {},
   inserted |-> 0, imageUrls |-> <<>>, toDelete |-> <<>>, toAdd |-> <<>>,
   oldCover |-> Null, oldImages |-> <<>>]

\* The canonical paths of the submitted images (imageUrls).
NewImageUrls(cover, imgs, first) ==
  IF imgs.src = "files" /\ imgs.n > 0
  THEN [i \in 1..imgs.n |->
          getRelativePath(UploadedPath(NewsDir, ImageFileNames(cover, imgs, first)[i]), "news")]
  ELSE IF imgs.src = "body" /\ imgs.form = "list"
  THEN [i \in 1..Len(imgs.list) |-> getRelativePath(imgs.list[i], "news")]
  ELSE <<>>

\* A variant that does not tell a request without images from one with none left.
shouldUpdateImagesAlways(imgs) == imgs.src # "files" \/ imgs.n > 0

shouldUpdateImages(imgs) == (imgs.src = "files" /\ imgs.n > 0) \/ imgs.src = "body"

imagesToKeep(imageUrls, oldImageUrls) ==
  SelectSeq(imageUrls, LAMBDA u : Includes(oldImageUrls, u))
\* A variant that removes no image.
imagesToDeleteNone(imageUrls, oldImageUrls) == <<>>
imagesToDelete(imageUrls, oldImageUrls) ==
  SelectSeq(oldImageUrls, LAMBDA u : ~Includes(imageUrls, u))
imagesToAdd(imageUrls, oldImageUrls) ==
  SelectSeq(imageUrls, LAMBDA u : ~Includes(oldImageUrls, u))

\* oldImages.find((img) => img.image_url === urlToDelete)
FindImage(oldImages, url) ==
  oldImages[CHOOSE i \in 1..Len(oldImages) :
              /\ oldImages[i].image_url = url
              /\ \A j \in 1..(i - 1) : oldImages[j].image_url # url]

\* The loop over imagesToDelete: one NewsAndEventsImage.delete per url, on
\* the row find() gives for it.
RECURSIVE DeleteRemoved(_, _, _)
DeleteRemoved(rows, oldImages, toDelete) ==
  IF toDelete = <<>> THEN rows
  ELSE DeleteRemoved(delete(rows, FindImage(oldImages, Head(toDelete)).id),
                     oldImages, Tail(toDelete))

\* A variant in which a failed unlink is not caught.
RethrownAll(calls) == FailedUnlinks(calls)

\* The failed deletions whose error leaves the try / catch around the
\* deleteFile or deleteFiles call: the catch blocks only log, and deleteFiles
\* waits with Promise.allSettled, which never rejects.
Rethrown(calls) == {}

\* The cover slot of an update: the value put into updateData.cover_image
\* (Undefined: the column is left alone) and the deleteFile call made for the
\* old cover, before the row is updated.
UpdateCover(d, oldCover, cover, first, unlinkFails) ==
  LET new == IF cover.src = "file"
             THEN getRelativePath(UploadedPath(CoverDir, CoverFileName(cover, first)), "cover")
             ELSE IF cover.src = "body" /\ ~Falsy(cover.val)
             THEN getRelativePath(cover.val, "cover")
             ELSE IF cover.src = "body" THEN Null
             ELSE Undefined
      superseded == IF cover.src = "none" THEN FALSE
                    ELSE IF cover.src = "body" /\ Falsy(cover.val) THEN ~Falsy(oldCover)
                    ELSE ~Falsy(oldCover) /\ oldCover # new
  IN  [cover_image |-> new,
       calls |-> IF superseded THEN {deleteFile(d, oldCover, "cover", unlinkFails)} ELSE {}]

\* NewsAndEvents.update: only the fields present in updateData are written.
update(n, id, category_id, cover_image, status) ==
  [n EXCEPT ![id] = [category_id |-> IF category_id # 0 THEN category_id ELSE @.category_id,
                     cover_image |-> IF cover_image.kind = "undefined" THEN @.cover_image
                                     ELSE cover_image,
                     status |-> IF status = "undefined" THEN @.status ELSE status,
                     created_by |-> @.created_by]]

\* The smart image update, after the row update succeeded.
Reconcile(r0, id, imageUrls, oldImages, fault, firstId, now) ==
  LET oldImageUrls == ImageUrlsOf(oldImages)
      toDelete == imagesToDelete(imageUrls, oldImageUrls)
      toAdd == imagesToAdd(imageUrls, oldImageUrls)
      rows1 == IF fault = "rowdel" THEN r0.images
               ELSE DeleteRemoved(r0.images, oldImages, toDelete)
      calls == IF Len(toDelete) > 0
               THEN deleteFiles(r0.disk, toDelete, "news", fault = "unlink") ELSE {}
      d1 == r0.disk \ Unlinked(calls)
      failsInsert == fault = "insert" /\ Len(toAdd) > 0
      nAdd == IF failsInsert THEN Len(toAdd) - 1 ELSE Len(toAdd)
      rows2 == rows1 \cup createMultiple(id, toAdd, firstId, now, nAdd)
      removeAll == Len(imageUrls) = 0 /\ Len(oldImageUrls) > 0
      r1 == [r0 EXCEPT !.images = rows2, !.disk = d1, !.calls = @ \cup calls,
                       !.inserted = nAdd, !.imageUrls = imageUrls,
                       !.toDelete = toDelete, !.toAdd = toAdd]
  IN  IF Rethrown(calls) # {}
      THEN [r1 EXCEPT !.code = 500, !.images = rows1, !.inserted = 0]
      ELSE IF failsInsert THEN [r1 EXCEPT !.code = 500]
      ELSE IF removeAll /\ fault = "bulk" THEN [r1 EXCEPT !.code = 500]
      ELSE IF removeAll THEN [r1 EXCEPT !.images = deleteByNewsAndEventsId(rows2, id)]
      ELSE r1

\* PUT /api/news-and-events/:id after authenticate:
\* handleFileUpload, validateNewsUpdate, updateNewsAndEvents.
\* fault names the one kind of statement or system call that fails in this
\* request: "unlink" (fs.unlink), "rowdel" (the per-row DELETE), "db" (the
\* UPDATE of the item), "insert" (the last INSERT of createMultiple), "bulk"
\* (the DELETE by parent id), or "none".
\* status: the status field of the body, "undefined" when not sent.
updateNewsAndEventsTo(status, id, cover, imgs, category_id, fault) ==
  LET d0 == handleFileUpload(disk, cover, imgs, nextFile)
  IN  IF ~ValidCoverImage(cover) THEN Result(400, news, images, d0)
      ELSE IF id \notin DOMAIN news THEN Result(404, news, images, d0)
      ELSE IF category_id # 0 /\ category_id \notin DOMAIN categories
      THEN Result(404, news, images, d0)
      ELSE
        LET oldCover == news[id].cover_image
            oldImages == findByNewsAndEventsId(images, id)
            cv == UpdateCover(d0, oldCover, cover, nextFile, fault = "unlink")
            d1 == d0 \ Unlinked(cv.calls)
            imageUrls == NewImageUrls(cover, imgs, nextFile)
            r0 == [Result(200, news, images, d1) EXCEPT
                     !.calls = cv.calls, !.oldCover = oldCover, !.oldImages = oldImages]
        IN  IF Rethrown(cv.calls) # {} THEN [r0 EXCEPT !.code = 500]
            ELSE IF fault = "db" THEN [r0 EXCEPT !.code = 500]
            ELSE IF ~shouldUpdateImages(imgs)
            THEN [r0 EXCEPT !.news = update(news, id, category_id, cv.cover_image, status)]
            ELSE Reconcile([r0 EXCEPT !.news = update(news, id, category_id, cv.cover_image, status)],
                           id, imageUrls, oldImages, fault, nextImageId, reqs + 1)

\* The same request without a status field.
updateNewsAndEvents(id, cover, imgs, category_id, fault) ==
  updateNewsAndEventsTo("undefined", id, cover, imgs, category_id, fault)

\* The decoded token of a request (req.user); NoUser: req.user is not set.
User(id) == [id |-> id, type |-> "admin"]
NoUser == [id |-> 0, type |-> "none"]

\* NewsAndEvents.create: INSERT INTO news_and_events, cover_image || null,
\* status = "active" by default, created_by || null (0 stands for NULL).
insertNews(n, id, category_id, cover_image, status, created_by) ==
  n @@ (id :> [category_id |-> category_id, cover_image |-> cover_image,
               status |-> IF status = "undefined" THEN "active" ELSE status,
               created_by |-> created_by])

\* POST /api/news-and-events after authenticate:
\* handleFileUpload, validateNewsCreate, createNewsAndEvents.
\* fault: "db" (the INSERT of the item), "insert" (the last INSERT of
\* createMultiple) or "none".
\* user: req.user as authenticate left it; status: the status field of the
\* body, "undefined" when not sent.
createNewsAndEventsBy(user, status, cover, imgs, category_id, fault) ==
  LET d0 == handleFileUpload(disk, cover, imgs, nextFile)
      coverImageUrl ==
        IF cover.src = "file"
        THEN getRelativePath(UploadedPath(CoverDir, CoverFileName(cover, nextFile)), "cover")
        ELSE IF cover.src = "body" /\ ~Falsy(cover.val)
        THEN getRelativePath(cover.val, "cover")
        ELSE Null
      imageUrls == NewImageUrls(cover, imgs, nextFile)
      failsInsert == fault = "insert" /\ Len(imageUrls) > 0
      nAdd == IF failsInsert THEN Len(imageUrls) - 1 ELSE Len(imageUrls)
      created_by == IF user = NoUser THEN 0 ELSE user.id
      news1 == insertNews(news, nextNewsId, category_id, coverImageUrl, status, created_by)
      rows1 == images \cup createMultiple(nextNewsId, imageUrls, nextImageId, reqs + 1, nAdd)
  IN  IF ~ValidCoverImage(cover) THEN Result(400, news, images, d0)
      ELSE IF category_id \notin DOMAIN categories THEN Result(404, news, images, d0)
      ELSE IF fault = "db" THEN Result(500, news, images, d0)
      ELSE [Result(IF failsInsert THEN 500 ELSE 201, news1, rows1, d0) EXCEPT
              !.inserted = nAdd, !.imageUrls = imageUrls]

\* The same request of admin 1 without a status field.
createNewsAndEvents(cover, imgs, category_id, fault) ==
  createNewsAndEventsBy(User(1), "undefined", cover, imgs, category_id, fault)

\* NewsAndEvents.delete: the row goes, its image rows go by ON DELETE CASCADE.
deleteNews(n, id) == [i \in DOMAIN n \ {id} |-> n[i]]

\* DELETE /api/news-and-events/:id after authenticate: deleteNewsAndEvents.
\* fault: "unlink" (fs.unlink), "db" (the DELETE of the item) or "none".
deleteNewsAndEvents(id, fault) ==
  IF id \notin DOMAIN news THEN Result(404, news, images, disk)
  ELSE
    LET oldCover == news[id].cover_image
        oldImages == findByNewsAndEventsId(images, id)
        imageUrls == ImageUrlsOf(oldImages)
        ccalls == IF ~Falsy(oldCover)
                  THEN {deleteFile(disk, oldCover, "cover", fault = "unlink")} ELSE {}
        d1 == disk \ Unlinked(ccalls)
        gcalls == IF Len(imageUrls) > 0
                  THEN deleteFiles(d1, imageUrls, "news", fault = "unlink") ELSE {}
        d2 == d1 \ Unlinked(gcalls)
        r0 == [Result(200, news, images, d2) EXCEPT
                 !.calls = ccalls \cup gcalls, !.oldCover = oldCover,
                 !.oldImages = oldImages]
    IN  IF Rethrown(ccalls \cup gcalls) # {} THEN [r0 EXCEPT !.code = 500]
        ELSE IF fault = "db" THEN [r0 EXCEPT !.code = 500]
        ELSE [r0 EXCEPT !.news = deleteNews(news, id),
                        !.images = deleteByNewsAndEventsId(images, id)]

\* The Authorization header: its first word, and what stands after the first
\* space (token "none": nothing; otherwise what jwt.verify makes of it) with
\* the admin id the token was signed for. NoHeader: no header was sent.
Header(scheme, token, id) == [scheme |-> scheme, token |-> token, id |-> id]
NoHeader == Header("", "none", 0)

\* A query parameter as the client sends it: absent, text that is no number,
\* or a decimal integer.
Param(kind, n) == [kind |-> kind, n |-> n]
Absent == Param("absent", 0)
Num(n) == Param("int", n)

\* parseInt(req.query.x) || dflt: NaN and 0 are falsy, so both give dflt.
parseIntOr(p, dflt) == IF p.kind = "int" /\ p.n # 0 THEN p.n ELSE dflt

\* A response: the status code and message, the ids of the items it lists,
\* the number of database statements the handler ran (ran: it was called).
\* req.query of a list request without parameters. category_id, date_from and
\* date_to are 0 when the parameter is absent.
NoQuery ==
  [page |-> Absent, limit |-> Absent, status |-> "", category_id |-> 0,
   date_from |-> 0, date_to |-> 0]

Reply(code, message) ==
  [route |-> "", code |-> code, message |-> message, ran |-> TRUE, items |-> <<>>,
   queries |-> 0, query |-> NoQuery,
   id |-> 0, valid |-> TRUE, before |-> <<>>, header |-> NoHeader, email |-> "",
   input |-> <<>>, data |-> <<>>]

\* The ids of the items a filter selects (status "": no filter), newest first.
RECURSIVE Newest(_)
Newest(ids) ==
  IF ids = {} THEN <<>>
  ELSE LET m == CHOOSE i \in ids : \A j \in ids : j <= i
       IN  <<m>> \o Newest(ids \ {m})
\* The date_time of an item: the items are posted in the order of their
\* date_time, so that the newest item is the one created last.
date_time(id) == id

\* The WHERE clause of findAll: category_id, status, date_from and date_to,
\* each applied when the filter is present.
Matching(filters) ==
  {i \in DOMAIN news :
     /\ filters.category_id = 0 \/ news[i].category_id = filters.category_id
     /\ filters.status = "" \/ news[i].status = filters.status
     /\ filters.date_from = 0 \/ date_time(i) >= filters.date_from
     /\ filters.date_to = 0 \/ date_time(i) <= filters.date_to}

\* NewsAndEvents.count(filters): its WHERE clause has the conditions on
\* category_id and status and none on date_time.
count(filters) ==
  Cardinality(Matching([filters EXCEPT !.date_from = 0, !.date_to = 0]))

\* NewsAndEvents.findAll(filters): ... LIMIT limit OFFSET offset
findAll(filters, limit, offset) ==
  LET all == Newest(Matching(filters))
      hi == IF offset + limit < Len(all) THEN offset + limit ELSE Len(all)
  IN  SubSeq(all, offset + 1, hi)

\* The body the two list handlers share: pagination check, count, findAll,
\* then one findByNewsAndEventsId per item found.
listNewsAndEvents(query, status) ==
  LET page == parseIntOr(query.page, 1)
      limit == parseIntOr(query.limit, 10)
      filters == [query EXCEPT !.status = status]
      totalCount == count(filters)
      totalPages == (totalCount + limit - 1) \div limit
      found == findAll(filters, limit, (page - 1) * limit)
  IN  IF page < 1 THEN Reply(400, "Page must be greater than 0")
      ELSE IF limit < 1 \/ limit > 100 THEN Reply(400, "Limit must be between 1 and 100")
      ELSE [Reply(200, "News and events retrieved successfully") EXCEPT
              !.items = found, !.queries = 2 + Len(found),
              !.data = [totalItems |-> totalCount, totalPages |-> totalPages,
                        hasNext |-> page < totalPages, hasPrev |-> page > 1]]

\* GET /api/news-and-events after authenticate: status from the query.
getAllNewsAndEvents(query) == listNewsAndEvents(query, query.status)

\* Variant of the public list that takes the status from the query.
getActiveWithQueryStatus(query) == listNewsAndEvents(query, query.status)

\* GET /api/news-and-events/public: status is always "active".
getActiveNewsAndEvents(query) == listNewsAndEvents(query, "active")

\* GET /api/news-and-events/:id after authenticate: getNewsAndEventsById.
getNewsAndEventsById(id) ==
  IF id \notin DOMAIN news THEN [code |-> 404, cover_image |-> Null, images |-> <<>>]
  ELSE LET rows == findByNewsAndEventsId(images, id)
       IN  [code |-> 200,
            cover_image |-> getRelativePath(news[id].cover_image, "cover"),
            images |-> [i \in 1..Len(rows) |-> getRelativePath(rows[i].image_url, "news")]]

\* GET /api/news-and-events/public/:id: getActiveNewsAndEventsById.
getActiveNewsAndEventsById(id) ==
  IF id \notin DOMAIN news \/ news[id].status # "active"
  THEN [code |-> 404, cover_image |-> Null, images |-> <<>>]
  ELSE getNewsAndEventsById(id)

\* ------------------------------------------------------------------ the inputs
\* A file name of a client's own making.
Foreign == 0 - 1

RECURSIVE ListsUpTo(_, _)
ListsUpTo(S, n) ==
  IF n = 0 THEN {<<>>}
  ELSE ListsUpTo(S, n - 1) \cup
       {Append(l, x) : l \in {m \in ListsUpTo(S, n - 1) : Len(m) = n - 1}, x \in S}

BodyImages(lists) ==
  {ImagesIn("body", 0, "empty", <<>>), ImagesIn("body", 0, "null", <<>>)} \cup
  {ImagesIn("body", 0, "list", l) : l \in lists}
FileImages == {ImagesIn("files", n, "none", <<>>) : n \in 1..MaxList}
FileCover == CoverIn("file", Undefined)
BodyCovers ==
  {CoverIn("body", v) :
     v \in {EmptyStr, Rel(CoverDir, 1), LocalUrl(CoverDir, 1), LocalUrl(NewsDir, 1),
            ExtUrl(Foreign)}}

Req(cover, imgs, category_id, fault) ==
  [cover |-> cover, imgs |-> imgs, category_id |-> category_id, fault |-> fault]

\* The requests of Spec: about the gallery, about the cover, about the
\* category (3 is the id of no category), and uploads of both at once.
SomeImages == BodyImages(ListsUpTo({Rel(NewsDir, 1), ExtUrl(Foreign)}, MaxList)) \cup FileImages
CreateInputs ==
  {Req(NoCover, i, 1, "none") : i \in SomeImages \cup {NoImages}} \cup
  {Req(NoCover, ImagesIn("body", 0, "list",
                         <<LocalUrl(NewsDir, 1), ExtUploadsUrl(NewsDir, Foreign)>>), 1, "none")} \cup
  {Req(c, NoImages, 1, "none") : c \in BodyCovers \cup {FileCover}} \cup
  {Req(FileCover, ImagesIn("files", 1, "none", <<>>), k, "none") : k \in {1, 3}} \cup
  {Req(FileCover, NoImages, 1, "db")}
UpdateInputs ==
  {Req(NoCover, i, 0, f) : i \in SomeImages, f \in {"none", "unlink", "rowdel"}} \cup
  {Req(c, NoImages, 0, f) : c \in BodyCovers \cup {FileCover}, f \in {"none", "unlink", "db"}} \cup
  {Req(NoCover, NoImages, k, "none") : k \in {2, 3}} \cup
  {Req(FileCover, NoImages, 2, "none"),
   Req(FileCover, ImagesIn("files", 1, "none", <<>>), 0, "none")}
DeleteFaults == {"none", "unlink", "db"}

\* The requests of SpecGallery: image lists only, one request more.
ListStrings == {Rel(NewsDir, 1), Rel(NewsDir, 2), ExtUrl(Foreign)}
ImageLists ==
  ListsUpTo(ListStrings, MaxList) \cup
  {<<LocalUrl(NewsDir, 1)>>, <<ExtUploadsUrl(NewsDir, Foreign)>>, <<ExtLocalhostUrl(1)>>}
GalleryImages == BodyImages(ImageLists) \cup FileImages
GalleryCreateInputs == {Req(NoCover, i, 1, "none") : i \in GalleryImages \cup {NoImages}}
GalleryUpdateInputs ==
  {Req(NoCover, i, 0, f) : i \in GalleryImages, f \in {"none", "unlink", "rowdel"}}

\* The generated file names a request cites are names of files uploaded
\* before it: a client learns them from a response.
Cited(q) == {q.cover.val.name} \cup {q.imgs.list[i].name : i \in 1..Len(q.imgs.list)}
Known(q, first) == \A n \in Cited(q) : n < first

\* ------------------------------------------------------------------ the machine
NoRequest ==
  [op |-> "none", id |-> 0, code |-> 0, cover |-> NoCover, images |-> NoImages,
   imageUrls |-> <<>>, toDelete |-> <<>>, toAdd |-> <<>>, oldCover |-> Null,
   oldImages |-> <<>>, oldNews |-> <<>>, oldRows |-> {}, oldDisk |-> {}, calls |-> {},
   fault |-> "none", clean |-> [code |-> 0, news |-> <<>>, images |-> {}]]

\* What is remembered of the request before the last one: the images list of
\* a successful update.
Summary(l) ==
  IF l.op = "update" /\ l.code = 200 /\ l.images.src = "body"
  THEN [id |-> l.id, images |-> l.images, fault |-> l.fault]
  ELSE [id |-> 0, images |-> NoImages, fault |-> "none"]

\* No response yet.
NoResponse == [Reply(0, "") EXCEPT !.route = "none"]

\* The handlers that run at once, and a handler that has not started.
Procs == {1, 2}
Idle ==
  [pc |-> "idle", op |-> "none", id |-> 0, imgs |-> NoImages, oldCover |-> Null,
   oldImages |-> <<>>, imageUrls |-> <<>>, found |-> FALSE, code |-> 0,
   waited |-> FALSE, racy |-> FALSE, arg |-> "", cat |-> 0]

Init ==
  /\ categories = <<[slug |-> "news"], [slug |-> "events"]>>
  /\ nextCategoryId = 3
  /\ admins = <<[email |-> "root@stcc", name |-> "root", password |-> "hash"]>>
  /\ resp = NoResponse
  /\ news = <<>>
  /\ images = {}
  /\ disk = {}
  /\ nextNewsId = 1
  /\ nextImageId = 1
  /\ nextFile = 1
  /\ reqs = 0
  /\ unlinkFailed = {}
  /\ prev = Summary(NoRequest)
  /\ last = NoRequest
  /\ procs = [p \in Procs |-> Idle]

\* The same faults with every fs.unlink succeeding.
NoUnlink(fault) == IF fault = "unlink" THEN "none" ELSE fault

\* A request handled from the upload middleware to the response.
\* (ok: what the same request leaves behind when no fs.unlink fails)
Handled(op, id, cover, imgs, fault, r, ok) ==
  /\ news' = r.news
  /\ images' = r.images
  /\ disk' = r.disk
  /\ nextNewsId' = IF nextNewsId \in DOMAIN r.news THEN nextNewsId + 1 ELSE nextNewsId
  /\ nextImageId' = nextImageId + r.inserted
  /\ nextFile' = nextFile + FilesUploaded(cover, imgs)
  /\ reqs' = reqs + 1
  /\ unlinkFailed' = unlinkFailed \cup FailedUnlinks(r.calls)
  /\ prev' = Summary(last)
  /\ last' = [op |-> op, id |-> id, code |-> r.code, cover |-> cover, images |-> imgs,
              imageUrls |-> r.imageUrls, toDelete |-> r.toDelete, toAdd |-> r.toAdd,
              oldCover |-> r.oldCover, oldImages |-> r.oldImages, oldNews |-> news,
              oldRows |-> images, oldDisk |-> disk, calls |-> r.calls, fault |-> fault,
              clean |-> [code |-> ok.code, news |-> ok.news, images |-> ok.images]]
  /\ UNCHANGED <<categories, nextCategoryId, admins, procs>>

Create(inputs, limit) ==
  /\ reqs < limit
  /\ nextNewsId <= MaxItems
  /\ \E q \in inputs :
       /\ Known(q, nextFile)
       /\ nextFile + FilesUploaded(q.cover, q.imgs) - 1 <= MaxFiles
       /\ Handled("create", nextNewsId, q.cover, q.imgs, q.fault,
                  createNewsAndEvents(q.cover, q.imgs, q.category_id, q.fault),
                  createNewsAndEvents(q.cover, q.imgs, q.category_id, NoUnlink(q.fault)))
  /\ UNCHANGED resp

Update(inputs, limit) ==
  /\ reqs < limit
  /\ \E id \in 1..nextNewsId, q \in inputs :
       /\ Known(q, nextFile)
       /\ nextFile + FilesUploaded(q.cover, q.imgs) - 1 <= MaxFiles
       /\ Handled("update", id, q.cover, q.imgs, q.fault,
                  updateNewsAndEvents(id, q.cover, q.imgs, q.category_id, q.fault),
                  updateNewsAndEvents(id, q.cover, q.imgs, q.category_id, NoUnlink(q.fault)))
  /\ UNCHANGED resp

Delete(limit) ==
  /\ reqs < limit
  /\ \E id \in 1..nextNewsId, fault \in DeleteFaults :
       Handled("delete", id, NoCover, NoImages, fault, deleteNewsAndEvents(id, fault),
               deleteNewsAndEvents(id, NoUnlink(fault)))
  /\ UNCHANGED resp

Next ==
  \/ Create(CreateInputs, MaxReqs)
  \/ Update(UpdateInputs, MaxReqs)
  \/ Delete(MaxReqs)

Spec == Init /\ [][Next]_vars

NextGallery ==
  \/ Create(GalleryCreateInputs, MaxReqs + 1)
  \/ Update(GalleryUpdateInputs, MaxReqs + 1)
  \/ Delete(MaxReqs + 1)

SpecGallery == Init /\ [][NextGallery]_vars

\* ------------------------------------------------------------------ properties
ItemRows(rows, id) == {r \in rows : r.news_and_events_id = id}
NewsFiles(d) == {f \in d : f[1] = NewsDir}

\* A persisted cover_image or image row holds the canonical path of file f.
Referenced(f) ==
  \/ \E id \in DOMAIN news : news[id].cover_image = Rel(f[1], f[2])
  \/ \E r \in images : r.image_url = Rel(f[1], f[2])

\* An absolute URL whose host is not this service's own host.
IsExternal(s) == s.kind = "url" /\ s.host # OwnHost

UpdatedImages ==
  last.op = "update" /\ last.code = 200 /\ shouldUpdateImages(last.images)

\* C1: after an update that supplies images, the item's image rows are the
\* deduplicated canonical list: one row per distinct path of it, no other row.
C1_RowsAreCanonicalSet ==
  (UpdatedImages /\ last.fault = "none") =>
    /\ \A u \in Range(last.imageUrls) :
         Cardinality({r \in ItemRows(images, last.id) : r.image_url = u}) = 1
    /\ \A r \in ItemRows(images, last.id) : r.image_url \in Range(last.imageUrls)

\* C2: no request deletes a file whose canonical path a persisted cover_image
\* or image row still holds once the request is over.
C2_NoReferencedFileDeleted ==
  last.fault = "none" => \A f \in Unlinked(last.calls) : ~Referenced(f)

\* C3: a file that no persisted row references is on disk only if an attempt
\* to delete it failed.
C3_OrphanOnlyAfterFailedDelete ==
  \A f \in disk : Referenced(f) \/ f \in unlinkFailed

\* The getRelativePath half of C4: an external URL of a submitted images list
\* comes out of getRelativePath, and so goes into the table, as it was sent.
C4_ExternalUrlsStoredVerbatim ==
  (last.code \in {200, 201} /\ last.images.src = "body" /\ last.images.form = "list") =>
    \A i \in 1..Len(last.images.list) :
      IsExternal(last.images.list[i]) => last.imageUrls[i] = last.images.list[i]

\* The deleteFile half of C4: a deleteFile call on an external URL removes no
\* file.
C4_ExternalUrlsNeverDeleted ==
  \A c \in last.calls : IsExternal(c.url) => c.result # "unlinked"

\* C4: an external URL is stored unchanged on create and update, and a
\* deleteFile call on an external URL removes no file, whatever its path.
C4_ExternalUrlsKeptAndNeverDeleted ==
  C4_ExternalUrlsStoredVerbatim /\ C4_ExternalUrlsNeverDeleted

\* C5: the same image URL list submitted twice in succession for one item:
\* the second call has nothing to delete and nothing to add and changes
\* neither the image rows nor the disk.
C5_SameListTwiceIsIdempotent ==
  (/\ last.op = "update" /\ last.code = 200 /\ last.images.src = "body"
   /\ last.fault = "none" /\ prev.fault = "none"
   /\ prev.id = last.id /\ prev.images = last.images) =>
    /\ last.toDelete = <<>>
    /\ last.toAdd = <<>>
    /\ images = last.oldRows
    /\ Unlinked(last.calls) = {}

\* C6: an update without uploaded image files and without an images field
\* leaves every image row and every file of the gallery directory as it was,
\* whatever else it updates and however it ends.
C6_NoImagesFieldLeavesGallery ==
  (last.op = "update" /\ last.images.src = "none") =>
    /\ images = last.oldRows
    /\ NewsFiles(disk) = NewsFiles(last.oldDisk)

\* C6 happens: such an update changed the cover, deleting the old cover file,
\* for an item that has image rows and gallery files.
C6_Witness ==
  /\ last.op = "update" /\ last.images.src = "none" /\ last.code = 200
  /\ ItemRows(images, last.id) # {}
  /\ NewsFiles(disk) # {}
  /\ Unlinked(last.calls) # {}
  /\ news[last.id].cover_image # last.oldCover

EmptyImageSet(imgs) ==
  imgs.src = "body" /\ (imgs.form \in {"empty", "null"} \/ imgs.list = <<>>)

\* C7: an update with an empty image set on an item that has images leaves
\* the item without image rows, even when the per-row deletes removed none;
\* deleteFile was called on the url of every old row, it got to the file of
\* every old row that holds a /news-images/ path, and unless fs.unlink
\* failed that file is gone.
C7_EmptySetRemovesAll ==
  (/\ last.op = "update" /\ last.code = 200
   /\ EmptyImageSet(last.images) /\ last.oldImages # <<>>) =>
    /\ ItemRows(images, last.id) = {}
    /\ \A i \in 1..Len(last.oldImages) :
         LET u == last.oldImages[i].image_url
             f == <<NewsDir, u.name>>
         IN  /\ \E c \in last.calls : c.url = u /\ c.type = "news"
             /\ u = Rel(NewsDir, u.name) =>
                  /\ f \in Attempted(last.calls)
                  /\ (f \in last.oldDisk /\ last.fault # "unlink") => f \notin disk
                  /\ (f \in last.oldDisk /\ last.fault = "unlink") =>
                       f \in FailedUnlinks(last.calls)

\* C7 happens: the per-row deletes failed, a gallery file was removed, and
\* the table holds no row of the item.
C7_Witness ==
  /\ last.op = "update" /\ last.code = 200
  /\ EmptyImageSet(last.images) /\ last.oldImages # <<>>
  /\ last.fault = "rowdel"
  /\ NewsFiles(Unlinked(last.calls)) # {}

\* C27: when an update that supplies a non-empty image list completes, no
\* image row of the item holds the path of a gallery file this update
\* deleted, also when a per-row delete failed or the old rows hold the same
\* path twice.
C27_NoRowOfDeletedFile ==
  (UpdatedImages /\ last.imageUrls # <<>>) =>
    \A r \in ItemRows(images, last.id), f \in NewsFiles(Unlinked(last.calls)) :
      r.image_url # Rel(f[1], f[2])

\* C8: item with images [A, B], update to one of them plus a new C: the
\* removed row is gone, the kept row keeps its id, and C comes after the
\* kept image in the order findByNewsAndEventsId returns.
C8_NewImageIsAppended ==
  (/\ last.op = "update" /\ last.code = 200 /\ last.fault = "none"
   /\ Len(last.oldImages) = 2
   /\ last.oldImages[1].image_url # last.oldImages[2].image_url
   /\ Len(last.imageUrls) = 2 /\ Len(last.toAdd) = 1 /\ Len(last.toDelete) = 1) =>
    LET now == findByNewsAndEventsId(images, last.id)
        kept == CHOOSE r \in Range(last.oldImages) : r.image_url \in Range(last.imageUrls)
        gone == CHOOSE r \in Range(last.oldImages) : r.image_url = last.toDelete[1]
    IN  /\ gone \notin images
        /\ kept \in images
        /\ Len(now) = 2
        /\ now[1] = kept
        /\ now[2].image_url = last.toAdd[1]

\* C9: when the row update of an update request fails, the file of the old
\* cover is still on disk.
C9_CoverFileKeptWhenUpdateFails ==
  (last.op = "update" /\ last.code = 500 /\ last.fault = "db") =>
    \A f \in last.oldDisk : last.oldCover = Rel(f[1], f[2]) => f \in disk

\* C10: the stored path P of an uploaded cover sent back as cover_image: the
\* request is accepted, the cover file stays, the stored cover is still P.
C10_CoverPathRoundTrip ==
  (/\ last.op = "update" /\ last.id \in DOMAIN last.oldNews
   /\ last.cover.src = "body"
   /\ last.cover.val = last.oldNews[last.id].cover_image
   /\ last.images.src = "none" /\ last.fault = "none"
   /\ \E f \in last.oldDisk : last.cover.val = Rel(f[1], f[2])) =>
    /\ last.code = 200
    /\ \A f \in last.oldDisk : last.cover.val = Rel(f[1], f[2]) => f \in disk
    /\ news[last.id].cover_image = last.cover.val

\* C11: a failed file deletion never fails the request. An update or delete
\* in which fs.unlink fails answers with the same code and leaves the same
\* rows as the same request without the failure, and every url of the batch
\* of removed images has a settled deleteFile outcome.
C11_DeletionFailureNeverFailsRequest ==
  (last.fault = "unlink" /\ last.op \in {"update", "delete"}) =>
    /\ last.code = last.clean.code
    /\ news = last.clean.news
    /\ images = last.clean.images
    /\ \A i \in 1..Len(last.toDelete) :
         \E c \in last.calls :
           c.url = last.toDelete[i] /\ c.type = "news" /\ c.result # "unlinked"

\* C11 happens: an update whose fs.unlink failed answered 200 and changed
\* the image rows, a delete whose fs.unlink failed removed the item.
C11_Witness ==
  /\ last.fault = "unlink" /\ last.code = 200
  /\ FailedUnlinks(last.calls) # {}
  /\ \/ last.op = "update" /\ images # last.oldRows
     \/ last.op = "delete" /\ last.id \notin DOMAIN news

\* ------------------------------------------------------------------ the handlers, await by await
\* updateNewsAndEvents and deleteNewsAndEvents of two requests in flight at
\* once: each action is the code between two awaits of one handler.
NoDup(l) == \A i, j \in 1..Len(l) : i # j => l[i] # l[j]
StepImages ==
  {ImagesIn("body", 0, "list", l) : l \in {m \in ListsUpTo(ListStrings, MaxList) : NoDup(m)}}
    \cup {ImagesIn("files", 1, "none", <<>>)}
StepCreateInputs ==
  {Req(NoCover, i, 1, "none") : i \in StepImages \cup FileImages} \cup
  {Req(FileCover, ImagesIn("files", 1, "none", <<>>), 1, "none")}
StepUpdateInputs == {Req(NoCover, i, 0, "none") : i \in StepImages}

\* The handler has read the old images and has database writes ahead.
Writing(pr) == pr.pc \in {"row", "rows", "files", "insert", "bulk"}

toDeleteOf(pr) == imagesToDelete(pr.imageUrls, ImageUrlsOf(pr.oldImages))
toAddOf(pr) == imagesToAdd(pr.imageUrls, ImageUrlsOf(pr.oldImages))

Step(p, pr) ==
  /\ procs' = [procs EXCEPT ![p] = pr]
  /\ UNCHANGED <<categories, nextCategoryId, admins, unlinkFailed, prev, last, resp>>

\* handleFileUpload, validation, findById (379), findByNewsAndEventsId (400)
StartUpdate(p) ==
  /\ procs[p].pc = "idle"
  /\ \E id \in 1..nextNewsId, q \in StepUpdateInputs :
       /\ Known(q, nextFile)
       /\ nextFile + FilesUploaded(q.cover, q.imgs) - 1 <= MaxFiles
       /\ disk' = handleFileUpload(disk, q.cover, q.imgs, nextFile)
       /\ nextFile' = nextFile + FilesUploaded(q.cover, q.imgs)
       /\ reqs' = reqs + 1
       /\ Step(p, IF id \notin DOMAIN news
                  THEN [Idle EXCEPT !.pc = "done", !.op = "update", !.id = id, !.code = 404]
                  ELSE [Idle EXCEPT !.pc = "row", !.op = "update", !.id = id, !.imgs = q.imgs,
                                    !.oldCover = news[id].cover_image,
                                    !.oldImages = findByNewsAndEventsId(images, id),
                                    !.imageUrls = NewImageUrls(q.cover, q.imgs, nextFile),
                                    !.racy = \E o \in Procs \ {p} :
                                               procs[o].op = "update" /\ procs[o].id = id
                                                 /\ Writing(procs[o])])
       /\ UNCHANGED <<news, images, nextNewsId, nextImageId>>

\* NewsAndEvents.update (524): no column of the row is in the request, so it
\* only reads the row back; a row deleted meanwhile reads back as null.
UpdateRow(p) ==
  /\ procs[p].pc = "row"
  /\ Step(p, [procs[p] EXCEPT !.found = procs[p].id \in DOMAIN news,
                              !.pc = IF shouldUpdateImages(procs[p].imgs)
                                     THEN "rows" ELSE "respond"])
  /\ UNCHANGED <<news, images, disk, nextNewsId, nextImageId, nextFile, reqs>>

\* the loop of NewsAndEventsImage.delete over imagesToDelete (561-577)
DeleteRows(p) ==
  /\ procs[p].pc = "rows"
  /\ images' = DeleteRemoved(images, procs[p].oldImages, toDeleteOf(procs[p]))
  /\ Step(p, [procs[p] EXCEPT !.pc = IF Len(toDeleteOf(procs[p])) > 0
                                     THEN "files" ELSE "insert"])
  /\ UNCHANGED <<news, disk, nextNewsId, nextImageId, nextFile, reqs>>

\* await deleteFiles(imagesToDelete, "news") (580-590)
DeleteFiles(p) ==
  /\ procs[p].pc = "files"
  /\ disk' = disk \ Unlinked(deleteFiles(disk, toDeleteOf(procs[p]), "news", FALSE))
  /\ Step(p, [procs[p] EXCEPT !.pc = "insert", !.waited = TRUE])
  /\ UNCHANGED <<news, images, nextNewsId, nextImageId, nextFile, reqs>>

\* NewsAndEventsImage.createMultiple (594-597); the foreign key refuses a row
\* for an item deleted meanwhile, which the catch answers with 400.
InsertRows(p) ==
  /\ procs[p].pc = "insert"
  /\ LET toAdd == toAddOf(procs[p])
         refused == Len(toAdd) > 0 /\ procs[p].id \notin DOMAIN news
     IN  /\ images' = IF refused THEN images
                      ELSE images \cup createMultiple(procs[p].id, toAdd, nextImageId,
                                                      reqs, Len(toAdd))
         /\ nextImageId' = IF refused THEN nextImageId ELSE nextImageId + Len(toAdd)
         /\ Step(p, IF refused THEN [procs[p] EXCEPT !.pc = "done", !.code = 400]
                    ELSE [procs[p] EXCEPT !.pc = "bulk"])
  /\ UNCHANGED <<news, disk, nextNewsId, nextFile, reqs>>

\* NewsAndEventsImage.deleteByNewsAndEventsId when the new list is empty (600-604)
BulkDelete(p) ==
  /\ procs[p].pc = "bulk"
  /\ images' = IF Len(procs[p].imageUrls) = 0 /\ Len(procs[p].oldImages) > 0
               THEN deleteByNewsAndEventsId(images, procs[p].id) ELSE images
  /\ Step(p, [procs[p] EXCEPT !.pc = "respond"])
  /\ UNCHANGED <<news, disk, nextNewsId, nextImageId, nextFile, reqs>>

\* update: the final read and res.json (608-623), which throws on a row that
\* read back as null; delete: 400 when no row was deleted, else res.json (678-684)
Respond(p) ==
  /\ procs[p].pc = "respond"
  /\ Step(p, [procs[p] EXCEPT !.pc = "done",
                              !.code = IF procs[p].found THEN 200
                                       ELSE IF procs[p].op = "update" THEN 500 ELSE 400])
  /\ UNCHANGED <<news, images, disk, nextNewsId, nextImageId, nextFile, reqs>>

\* deleteNewsAndEvents: findById (646), findByNewsAndEventsId (654)
StartDelete(p) ==
  /\ procs[p].pc = "idle"
  /\ \E id \in 1..nextNewsId :
       Step(p, IF id \notin DOMAIN news
               THEN [Idle EXCEPT !.pc = "done", !.op = "delete", !.id = id, !.code = 404]
               ELSE [Idle EXCEPT !.pc = "cover", !.op = "delete", !.id = id,
                                 !.oldCover = news[id].cover_image,
                                 !.oldImages = findByNewsAndEventsId(images, id)])
  /\ reqs' = reqs + 1
  /\ UNCHANGED <<news, images, disk, nextNewsId, nextImageId, nextFile>>

\* await deleteFile(cover_image, "cover") (658-664)
DeleteCoverFile(p) ==
  /\ procs[p].pc = "cover"
  /\ disk' = IF Falsy(procs[p].oldCover) THEN disk
             ELSE disk \ Unlinked({deleteFile(disk, procs[p].oldCover, "cover", FALSE)})
  /\ Step(p, [procs[p] EXCEPT !.pc = "gallery", !.waited = @ \/ ~Falsy(procs[p].oldCover)])
  /\ UNCHANGED <<news, images, nextNewsId, nextImageId, nextFile, reqs>>

\* await deleteFiles(imageUrls, "news") (667-673)
DeleteGalleryFiles(p) ==
  /\ procs[p].pc = "gallery"
  /\ disk' = disk \ Unlinked(deleteFiles(disk, ImageUrlsOf(procs[p].oldImages), "news", FALSE))
  /\ Step(p, [procs[p] EXCEPT !.pc = "item", !.waited = @ \/ Len(procs[p].oldImages) > 0])
  /\ UNCHANGED <<news, images, nextNewsId, nextImageId, nextFile, reqs>>

\* NewsAndEvents.delete (676); the image rows go with the item (ON DELETE CASCADE)
DeleteItem(p) ==
  /\ procs[p].pc = "item"
  /\ news' = IF procs[p].id \in DOMAIN news THEN deleteNews(news, procs[p].id) ELSE news
  /\ images' = deleteByNewsAndEventsId(images, procs[p].id)
  /\ Step(p, [procs[p] EXCEPT !.pc = "respond", !.found = procs[p].id \in DOMAIN news])
  /\ UNCHANGED <<disk, nextNewsId, nextImageId, nextFile, reqs>>

\* The item the interleaved requests work on is created beforehand.
Seed ==
  /\ \A p \in Procs : procs[p].pc = "idle"
  /\ Create(StepCreateInputs, 1)

NextSteps ==
  \/ Seed
  \/ \E p \in Procs :
       \/ StartUpdate(p) \/ UpdateRow(p) \/ DeleteRows(p) \/ DeleteFiles(p)
       \/ InsertRows(p) \/ BulkDelete(p) \/ Respond(p)
       \/ StartDelete(p) \/ DeleteCoverFile(p) \/ DeleteGalleryFiles(p) \/ DeleteItem(p)

SpecSteps == Init /\ [][NextSteps]_vars

\* The handler has no database write left on its path.
WritesDone(pr) ==
  /\ pr.pc \in {"files", "insert", "bulk", "respond", "done"}
  /\ pr.pc = "files" => Len(toAddOf(pr)) = 0
  /\ pr.pc \in {"files", "insert"} => ~(Len(pr.imageUrls) = 0 /\ Len(pr.oldImages) > 0)

\* C12: the response of an update or delete is sent as soon as the database
\* writes are done and is not held until the file deletions have settled: no
\* request whose database writes are done is still waiting for deleteFiles,
\* and no request that answered 200 has waited for a file deletion to settle.
C12_ResponseNotHeldForDeletions ==
  \A p \in Procs :
    /\ ~(procs[p].pc = "files" /\ WritesDone(procs[p]))
    /\ (procs[p].pc = "done" /\ procs[p].code = 200) => ~procs[p].waited

\* The urls of the image rows of an item.
UrlsOf(id) == {r.image_url : r \in ItemRows(images, id)}

\* Two updates of one item have both answered 200 and the item's images are
\* neither those of the one nor those of the other.
Merged ==
  /\ \A p \in Procs : procs[p].pc = "done" /\ procs[p].op = "update" /\ procs[p].code = 200
  /\ procs[1].id = procs[2].id
  /\ UrlsOf(procs[1].id) \notin {Range(procs[1].imageUrls), Range(procs[2].imageUrls)}

\* C13: two updates of one item that both supply images are not isolated: when
\* the second reads the old images between the first's read and its writes, the
\* item can end with image rows that are neither the canonical N1 nor the
\* canonical N2 (the witness); and only such an overlap produces that outcome.
C13_MergedUpdateOnlyWhenInterleaved ==
  Merged => \E p \in Procs : procs[p].racy

C13_Witness ==
  /\ Merged
  /\ \E p \in Procs : procs[p].racy
  /\ \A p \in Procs : procs[p].imgs.src = "body"

\* The file under public/uploads that a stored path names, if any.
LocalFile(s) ==
  IF s.kind = "path" /\ s.lead /\ Len(s.dirs) = 1 /\ s.dirs[1] \in ImageDirs
  THEN {<<s.dirs[1], s.name>>} ELSE {}

OwnFile(s, dir) == {f \in LocalFile(s) : f[1] = dir}

CreatedFromList ==
  /\ last.op = "create" /\ last.code = 201
  /\ last.images.src = "body" /\ last.images.form = "list"

Queries ==
  [page : {Absent, Num(0 - 1), Num(0), Num(1), Num(2), Param("text", 0)},
   limit : {Absent, Num(0), Num(1), Num(100), Num(101), Param("text", 0)},
   status : {"", "active", "inactive"}, category_id : {0}, date_from : {0},
   date_to : {0}]

\* A response to a request that changes nothing.
Answered(r, limit) ==
  /\ reqs < limit
  /\ resp' = r
  /\ reqs' = reqs + 1
  /\ UNCHANGED <<categories, nextCategoryId, admins, news, images, disk, nextNewsId,
                 nextImageId, nextFile, unlinkFailed, prev, last, procs>>

\* POST /api/news-and-events with or without a status
PostStatus(limit) ==
  /\ reqs < limit
  /\ nextNewsId <= MaxItems
  /\ \E st \in {"undefined", "active", "inactive"} :
       LET r == createNewsAndEventsBy(User(1), st, NoCover, NoImages, 1, "none")
       IN  /\ Handled("create", nextNewsId, NoCover, NoImages, "none", r, r)
           /\ resp' = [Reply(r.code, "") EXCEPT !.route = "create", !.id = nextNewsId]

\* PUT /api/news-and-events/:id with a status
PutStatus(limit) ==
  /\ reqs < limit
  /\ \E id \in 1..nextNewsId, st \in {"active", "inactive"} :
       LET r == updateNewsAndEventsTo(st, id, NoCover, NoImages, 0, "none")
       IN  /\ Handled("update", id, NoCover, NoImages, "none", r, r)
           /\ resp' = [Reply(r.code, "") EXCEPT !.route = "update", !.id = id]

GetList(limit) ==
  \E q \in Queries :
    Answered([getAllNewsAndEvents(q) EXCEPT !.route = "list", !.query = q], limit)

GetPublic(limit) ==
  \E q \in Queries :
    Answered([getActiveNewsAndEvents(q) EXCEPT !.route = "public", !.query = q], limit)

GetById(limit) ==
  \E id \in 1..nextNewsId :
    Answered([Reply(getNewsAndEventsById(id).code, "") EXCEPT
                !.route = "byId", !.id = id, !.queries = 1], limit)

GetPublicById(limit) ==
  \E id \in 1..nextNewsId :
    Answered([Reply(getActiveNewsAndEventsById(id).code, "") EXCEPT
                !.route = "publicById", !.id = id, !.queries = 1], limit)

NextRead ==
  \/ PostStatus(MaxReqs + 1)
  \/ PutStatus(MaxReqs + 1)
  \/ GetList(MaxReqs + 1)
  \/ GetPublic(MaxReqs + 1)
  \/ GetById(MaxReqs + 1)
  \/ GetPublicById(MaxReqs + 1)

SpecRead == Init /\ [][NextRead]_vars

\* C16: whatever the query, a client-supplied status included, the public
\* list returns only items whose status is active, and the public GET by id
\* answers 404 for an item that is inactive.
C16_PublicReadsOnlyActive ==
  /\ resp.route = "public" => \A i \in Range(resp.items) : news[i].status = "active"
  /\ (resp.route = "publicById" /\ resp.id \in DOMAIN news
        /\ news[resp.id].status = "inactive") => resp.code = 404

\* C16 happens: the public list was asked for inactive items while one
\* exists, and answered with an active item.
C16_Witness ==
  /\ resp.route = "public" /\ resp.query.status = "inactive"
  /\ resp.code = 200 /\ resp.items # <<>>
  /\ \E i \in DOMAIN news : news[i].status = "inactive"

\* C17: on both list routes limit=0, limit=101 and page=0 are answered 400
\* and no database statement is run for them.
C17_BadPaginationRejected ==
  (/\ resp.route \in {"list", "public"}
   /\ \/ resp.query.limit \in {Num(0), Num(101)}
      \/ resp.query.page = Num(0))
    => resp.code = 400 /\ resp.queries = 0

\* ------------------------------------------------------------------ authentication
\* Variants of authenticate: one that lets every request through, and one
\* that gives every refusal the same reason.
authenticateAnyone(h) ==
  [next |-> TRUE, code |-> 0, message |-> "", user |-> User(h.id)]
authenticateOneReason(h) ==
  IF h.scheme # "" /\ h.token = "valid"
  THEN [next |-> TRUE, code |-> 0, message |-> "", user |-> User(h.id)]
  ELSE [next |-> FALSE, code |-> 401, message |-> "Authentication failed.",
        user |-> NoUser]

\* authenticate(req, res, next): next is called with req.user set to the
\* decoded token, or the request is answered 401.
authenticate(h) ==
  LET refuse(message) ==
        [next |-> FALSE, code |-> 401, message |-> message, user |-> NoUser]
  IN  IF h = NoHeader THEN refuse("No token provided. Authorization header required.")
      ELSE IF h.token = "none" THEN refuse("Token not found in Authorization header.")
      ELSE IF h.token = "expired" THEN refuse("Token has expired.")
      ELSE IF h.token = "malformed" THEN refuse("Invalid token.")
      ELSE IF h.token # "valid" THEN refuse("Authentication failed.")
      ELSE [next |-> TRUE, code |-> 0, message |-> "", user |-> User(h.id)]

\* The headers a client sends: none, a scheme alone, a token that expired,
\* one that is no token, one that is not yet valid, and a token generateToken
\* signed for an admin, after "Bearer" or after any other word.
Headers ==
  {NoHeader, Header("Bearer", "none", 0), Header("Bearer", "expired", 1),
   Header("Bearer", "malformed", 0), Header("Bearer", "notbefore", 1)} \cup
  {Header("Bearer", "valid", i) : i \in DOMAIN admins} \cup
  {Header("Token", "valid", 1)}

\* ---- categoryController.js, Category.js
findBySlug(slug) == {id \in DOMAIN categories : categories[id].slug = slug}

\* createCategory: [code, categories]
createCategory(slug) ==
  IF findBySlug(slug) # {}
  THEN [code |-> 400, message |-> "Category with this slug already exists",
        categories |-> categories]
  ELSE [code |-> 201, message |-> "Category created successfully",
        categories |-> [id \in DOMAIN categories \cup {nextCategoryId} |->
                          IF id = nextCategoryId THEN [slug |-> slug]
                          ELSE categories[id]]]

\* updateCategory (slug "": the body has no slug)
updateCategory(id, slug) ==
  IF id \notin DOMAIN categories
  THEN [code |-> 404, message |-> "Category not found", categories |-> categories]
  ELSE IF slug # "" /\ slug # categories[id].slug /\ findBySlug(slug) # {}
  THEN [code |-> 400, message |-> "Category with this slug already exists",
        categories |-> categories]
  ELSE [code |-> 200, message |-> "Category updated successfully",
        categories |-> IF slug = "" THEN categories
                       ELSE [categories EXCEPT ![id].slug = slug]]

\* deleteCategory: the DELETE is refused by the database while an item
\* references the category, and the error handler answers 500.
deleteCategory(id) ==
  IF id \notin DOMAIN categories
  THEN [code |-> 404, message |-> "Category not found", categories |-> categories]
  ELSE IF \E n \in DOMAIN news : news[n].category_id = id
  THEN [code |-> 500, message |-> "Cannot delete or update a parent row",
        categories |-> categories]
  ELSE [code |-> 200, message |-> "Category deleted successfully",
        categories |-> [c \in DOMAIN categories \ {id} |-> categories[c]]]

\* ---- adminController.js, Admin.js
\* The addresses a client registers with, and normalizeEmail() of the
\* register validation, which lower-cases an address.
Emails == {"root@stcc", "Root@stcc", "new@stcc", "New@stcc"}
normalizeEmail(e) ==
  CASE e = "Root@stcc" -> "root@stcc"
    [] e = "New@stcc" -> "new@stcc"
    [] OTHER -> e

\* Variant of Admin.findByEmail that finds nobody.
findByEmailNone(email) == {}

\* Admin.findByEmail
findByEmail(email) == {id \in DOMAIN admins : admins[id].email = email}

\* The passwords a client sends ("abc" is shorter than the 6 characters the
\* login and register validations ask for), and bcrypt.hash of a password.
Passwords == {"Secret1", "Other2", "abc"}
hash(password) ==
  CASE password = "Secret1" -> "hash"
    [] password = "Other2" -> "hash2"
    [] OTHER -> "hash0"

\* Admin.verifyPassword: bcrypt.compare
verifyPassword(plainPassword, hashedPassword) == hash(plainPassword) = hashedPassword

\* SELECT columns FROM admins WHERE id = ?
Select(adm, id, columns) ==
  [c \in columns |-> IF c = "id" THEN id ELSE adm[id][c]]

\* Admin.findById: SELECT id, email, name, ...; <<>> stands for null.
findById(adm, id) ==
  IF id \in DOMAIN adm THEN <<Select(adm, id, {"id", "email", "name"})>> ELSE <<>>

\* Admin.findAll: SELECT id, email, name, ... FROM admins
findAllAdmins(adm) == [i \in DOMAIN adm |-> Select(adm, i, {"id", "email", "name"})]

\* generateToken(admin): the payload that is signed.
generateToken(admin) ==
  [id |-> admin.id, email |-> admin.email, name |-> admin.name, type |-> "admin"]

\* The data of a response: the admin rows, the token payload and the
\* validation errors in it.
Data(rows, tokens) == [admins |-> rows, token |-> tokens, errors |-> <<>>]

\* validateAdminLogin: the errors of validationResult(req).array(), each with
\* the path of the field, the value that was sent and the message.
validateAdminLogin(email, password) ==
  IF password = "abc"
  THEN <<[path |-> "password", value |-> password,
          msg |-> "Password must be at least 6 characters long"]>>
  ELSE <<>>

\* validateAdminRegister then register: [code, message, admins, data]
register(email, name, password, wellFormed) ==
  LET e == normalizeEmail(email)
      created == Append(admins, [email |-> e, name |-> name, password |-> hash(password)])
  IN  IF ~wellFormed
      THEN [code |-> 400, message |-> "Validation failed", admins |-> admins,
            data |-> Data(<<>>, <<>>)]
      ELSE IF findByEmail(e) # {}
      THEN [code |-> 400, message |-> "Admin with this email already exists",
            admins |-> admins, data |-> Data(<<>>, <<>>)]
      ELSE IF \E id \in DOMAIN admins : admins[id].email = e
      THEN [code |-> 500, message |-> "Duplicate entry", admins |-> admins,
            data |-> Data(<<>>, <<>>)]
      ELSE [code |-> 201, message |-> "Admin registered successfully",
            admins |-> created,
            data |-> Data(findById(created, Len(created)),
                          <<generateToken(findById(created, Len(created))[1])>>)]

\* validateAdminLogin then login: Admin.findByEmail reads every column, and
\* the response takes the row without its password.
login(email, password) ==
  LET found == findByEmail(normalizeEmail(email))
      admin == Select(admins, CHOOSE id \in found : TRUE,
                      {"id", "email", "name", "password"})
      adminWithoutPassword == [c \in DOMAIN admin \ {"password"} |-> admin[c]]
  IN  IF found = {} THEN [code |-> 401, message |-> "Invalid email or password",
                          data |-> Data(<<>>, <<>>)]
      ELSE IF ~verifyPassword(password, admin.password)
      THEN [code |-> 401, message |-> "Invalid email or password",
            data |-> Data(<<>>, <<>>)]
      ELSE [code |-> 200, message |-> "Login successful",
            data |-> Data(<<adminWithoutPassword>>, <<generateToken(admin)>>)]

\* getProfile
getProfile(user) ==
  IF user.id \in DOMAIN admins
  THEN [code |-> 200, message |-> "Profile retrieved successfully",
        data |-> Data(findById(admins, user.id), <<>>)]
  ELSE [code |-> 404, message |-> "Admin not found", data |-> Data(<<>>, <<>>)]

\* Variant of Admin.update that also writes an email.
updateAdminWithEmail(adm, id, updateData) ==
  IF id \notin DOMAIN adm THEN adm
  ELSE [adm EXCEPT ![id].email = IF updateData.email # "" THEN updateData.email ELSE @,
                   ![id].name = IF updateData.name # "" THEN updateData.name ELSE @]

\* Admin.update: a name and a password are written when the data has them
\* ("": not sent, or empty), the password as its hash; no other column is.
updateAdmin(adm, id, updateData) ==
  IF id \notin DOMAIN adm THEN adm
  ELSE [adm EXCEPT ![id].name = IF updateData.name # "" THEN updateData.name ELSE @,
                   ![id].password = IF updateData.password # ""
                                    THEN hash(updateData.password) ELSE @]

\* Variant of updateProfile that keeps the email of the body.
updateProfileWithEmail(user, body) ==
  LET updated == updateAdminWithEmail(admins, user.id, body)
  IN  [admins |-> updated, data |-> Data(findById(updated, user.id), <<>>)]

\* updateProfile: delete updateData.email, then Admin.update: [admins, data]
updateProfile(user, body) ==
  LET updated == updateAdmin(admins, user.id, [body EXCEPT !.email = ""])
  IN  [admins |-> updated, data |-> Data(findById(updated, user.id), <<>>)]

\* The bodies of PUT /api/admin/profile.
ProfileBodies ==
  {[email |-> "", name |-> "renamed", password |-> ""],
   [email |-> "evil@stcc", name |-> "renamed", password |-> "Other2"],
   [email |-> "new@stcc", name |-> "", password |-> ""],
   [email |-> "", name |-> "", password |-> "abc"]}

\* ---- the routes
MaxAdmins == 2
MaxCategories == 3

\* What the requests read and write.
Stored ==
  [categories |-> categories, admins |-> admins, news |-> news, images |-> images,
   disk |-> disk, nextFile |-> nextFile]

\* A response of a route to a request with header h.
Routed(route, h, r) ==
  [r EXCEPT !.route = route, !.header = h, !.before = Stored,
            !.valid = (h.token = "valid")]

\* A response to a request that changes categories or admins.
Changed(r, cats, nextCat, adm, limit) ==
  /\ reqs < limit
  /\ resp' = r
  /\ categories' = cats
  /\ nextCategoryId' = nextCat
  /\ admins' = adm
  /\ reqs' = reqs + 1
  /\ UNCHANGED <<news, images, disk, nextNewsId, nextImageId, nextFile, unlinkFailed,
                 prev, last, procs>>

\* authenticate answered the request itself.
Refused(route, h, limit) ==
  Answered(Routed(route, h, [Reply(authenticate(h).code, authenticate(h).message)
                               EXCEPT !.ran = FALSE]), limit)

\* The bodies of the news requests: nothing, or a cover and one image uploaded.
AuthBodies ==
  {Req(NoCover, NoImages, 1, "none"),
   Req(FileCover, ImagesIn("files", 1, "none", <<>>), 1, "none")}

\* POST, PUT /:id and DELETE /:id of /api/news-and-events
NewsWrite(limit) ==
  \E h \in Headers, route \in {"news.create", "news.update", "news.delete"} :
    IF ~authenticate(h).next THEN Refused(route, h, limit)
    ELSE /\ reqs < limit
         /\ \E id \in 1..nextNewsId, q \in AuthBodies :
              LET b == IF route = "news.delete" THEN Req(NoCover, NoImages, 1, "none") ELSE q
                  i == IF route = "news.create" THEN nextNewsId ELSE id
                  r == CASE route = "news.create" ->
                              createNewsAndEventsBy(authenticate(h).user, "undefined",
                                                    b.cover, b.imgs, b.category_id, "none")
                         [] route = "news.update" ->
                              updateNewsAndEvents(i, b.cover, b.imgs, b.category_id, "none")
                         [] OTHER -> deleteNewsAndEvents(i, "none")
              IN  /\ route = "news.create" => nextNewsId <= MaxItems
                  /\ nextFile + FilesUploaded(b.cover, b.imgs) - 1 <= MaxFiles
                  /\ Handled(IF route = "news.create" THEN "create"
                             ELSE IF route = "news.update" THEN "update" ELSE "delete",
                             i, b.cover, b.imgs, "none", r, r)
                  /\ resp' = Routed(route, h, [Reply(r.code, "") EXCEPT
                                                 !.id = i, !.queries = 1])

\* GET / and GET /:id of /api/news-and-events
NewsRead(limit) ==
  \E h \in Headers, route \in {"news.list", "news.byId"} :
    IF ~authenticate(h).next THEN Refused(route, h, limit)
    ELSE IF route = "news.list"
    THEN Answered(Routed(route, h, getAllNewsAndEvents(NoQuery)), limit)
    ELSE \E id \in 1..nextNewsId :
           Answered(Routed(route, h, [Reply(getNewsAndEventsById(id).code, "") EXCEPT
                                        !.id = id, !.queries = 1]), limit)

\* GET / and GET /:id of /api/categories
CategoryRead(limit) ==
  \E h \in Headers, route \in {"categories.list", "categories.byId"} :
    IF ~authenticate(h).next THEN Refused(route, h, limit)
    ELSE \E id \in 1..nextCategoryId :
           Answered(Routed(route, h,
                      [Reply(IF route = "categories.list" \/ id \in DOMAIN categories
                             THEN 200 ELSE 404, "") EXCEPT !.id = id, !.queries = 1]),
                    limit)

\* POST, PUT /:id and DELETE /:id of /api/categories
CategoryWrite(limit) ==
  \E h \in Headers, route \in {"categories.create", "categories.update",
                               "categories.delete"} :
    IF ~authenticate(h).next THEN Refused(route, h, limit)
    ELSE \E id \in 1..nextCategoryId, slug \in {"", "news", "sports"} :
           LET r == CASE route = "categories.create" -> createCategory(slug)
                      [] route = "categories.update" -> updateCategory(id, slug)
                      [] OTHER -> deleteCategory(id)
           IN  /\ route = "categories.create" => slug # "" /\ nextCategoryId <= MaxCategories
               /\ Changed(Routed(route, h, [Reply(r.code, r.message) EXCEPT
                                              !.id = id, !.queries = 1]),
                          r.categories,
                          IF r.code = 201 THEN nextCategoryId + 1 ELSE nextCategoryId,
                          admins, limit)

\* GET and PUT /api/admin/profile, GET /api/admin/all
AdminProfile(limit) ==
  \E h \in Headers, route \in {"admin.profile", "admin.updateProfile", "admin.all"} :
    IF ~authenticate(h).next THEN Refused(route, h, limit)
    ELSE IF route = "admin.updateProfile"
    THEN \E body \in ProfileBodies :
           LET r == updateProfile(authenticate(h).user, body)
           IN  Changed(Routed(route, h, [Reply(200, "Profile updated successfully") EXCEPT
                                           !.queries = 1, !.input = body, !.data = r.data]),
                       categories, nextCategoryId, r.admins, limit)
    ELSE IF route = "admin.all"
    THEN Answered(Routed(route, h, [Reply(200, "Admins retrieved successfully") EXCEPT
                                      !.queries = 1,
                                      !.data = Data(findAllAdmins(admins), <<>>)]), limit)
    ELSE LET r == getProfile(authenticate(h).user)
         IN  Answered(Routed(route, h, [Reply(r.code, r.message) EXCEPT
                                          !.queries = 1, !.data = r.data]), limit)

\* POST /api/admin/register (no authenticate on this route), with a body
\* that passes validateAdminRegister or does not.
Register(limit) ==
  \E email \in Emails, wellFormed \in BOOLEAN :
    LET r == register(email, "admin", "Secret1", wellFormed)
    IN  /\ Len(r.admins) <= MaxAdmins
        /\ Changed([Reply(r.code, r.message) EXCEPT
                      !.route = "admin.register", !.before = Stored,
                      !.valid = wellFormed, !.email = email, !.queries = 1,
                      !.data = r.data],
                   categories, nextCategoryId, r.admins, limit)

\* POST /api/admin/login (no authenticate on this route): validateAdminLogin,
\* then login
Login(limit) ==
  \E email \in Emails, password \in Passwords :
    LET errors == validateAdminLogin(email, password)
        r == login(email, password)
    IN  IF errors # <<>>
        THEN Answered([Reply(400, "Validation failed") EXCEPT
                         !.route = "admin.login", !.before = Stored, !.email = email,
                         !.ran = FALSE, !.data = [Data(<<>>, <<>>) EXCEPT !.errors = errors]],
                      limit)
        ELSE Answered([Reply(r.code, r.message) EXCEPT
                         !.route = "admin.login", !.before = Stored, !.email = email,
                         !.queries = 1, !.data = r.data], limit)

NextAuth ==
  \/ NewsWrite(MaxReqs)
  \/ NewsRead(MaxReqs)
  \/ CategoryRead(MaxReqs)
  \/ CategoryWrite(MaxReqs)
  \/ AdminProfile(MaxReqs)
  \/ Register(MaxReqs)
  \/ Login(MaxReqs)

SpecAuth == Init /\ [][NextAuth]_vars

\* The routes that have authenticate before their handler.
ProtectedRoutes ==
  {"news.list", "news.byId", "news.create", "news.update", "news.delete",
   "categories.list", "categories.byId", "categories.create", "categories.update",
   "categories.delete", "admin.profile", "admin.updateProfile", "admin.all"}

CaseOf(h) == IF h = NoHeader THEN "missing" ELSE h.token

\* C19: the reason of a 401 for a missing header, a header without a token,
\* an expired token and an invalid token differs from the reason of each
\* other of these cases; a handler of a protected route runs only for a valid
\* token; and an item created stores the id of the token as created_by.
C19_DistinctReasonsAndIdentity ==
  /\ (resp.route \in ProtectedRoutes /\ ~resp.ran) =>
       /\ resp.code = 401
       /\ \A g \in Headers :
            (/\ {CaseOf(g), CaseOf(resp.header)} \subseteq
                  {"missing", "none", "expired", "malformed"}
             /\ CaseOf(g) # CaseOf(resp.header))
              => authenticate(g).message # resp.message
  /\ (resp.route \in ProtectedRoutes /\ resp.ran) =>
       resp.header.token = "valid" /\ resp.header.id \in DOMAIN admins
  /\ (resp.route = "news.create" /\ resp.code = 201) =>
       /\ resp.id \in DOMAIN news
       /\ news[resp.id].created_by = resp.header.id

\* C19 happens: an admin registered, and an item created with that admin's
\* token is stored with the admin's id.
C19_Witness ==
  /\ resp.route = "news.create" /\ resp.code = 201
  /\ resp.header.id = 2
  /\ news[resp.id].created_by = 2

\* C20: a registration with an address that an admin already has is answered
\* 400, with message "Admin with this email already exists" when the body is
\* otherwise valid, and the admins are left as they were.
C20_DuplicateRegistrationRejected ==
  (/\ resp.route = "admin.register"
   /\ \E i \in DOMAIN resp.before.admins :
        resp.before.admins[i].email = normalizeEmail(resp.email))
    => /\ resp.code = 400
       /\ resp.valid => resp.message = "Admin with this email already exists"
       /\ admins = resp.before.admins

\* C20 happens: an address was registered, and a second registration with it
\* was refused.
C20_Witness ==
  /\ resp.route = "admin.register" /\ resp.valid
  /\ normalizeEmail(resp.email) = "new@stcc"
  /\ resp.code = 400
  /\ Len(admins) = 2 /\ admins[2].email = "new@stcc"

\* ------------------------------------------------------------------ errorHandler.js
\* An error as a handler passes it to next(error): statusCode 0 and message ""
\* stand for a property that is not set.
Err(statusCode, message, name) ==
  [statusCode |-> statusCode, message |-> message, name |-> name]

\* NODE_ENV: "" stands for a variable that is not set.
Modes == {"", "production", "development", "test"}

\* errorHandler(err, req, res, next): [code, message, stack], stack telling
\* whether the response carries err.stack.
errorHandler(err, nodeEnv) ==
  LET statusCode0 == IF err.statusCode # 0 THEN err.statusCode ELSE 500
      message0 == IF err.message # "" THEN err.message ELSE "Internal server error"
      statusCode == CASE err.name = "ValidationError" -> 400
                      [] err.name = "UnauthorizedError" -> 401
                      [] err.name = "CastError" -> 400
                      [] OTHER -> statusCode0
      message == CASE err.name = "ValidationError" -> "Validation error"
                   [] err.name = "UnauthorizedError" -> "Unauthorized"
                   [] err.name = "CastError" -> "Invalid ID format"
                   [] OTHER -> message0
  IN  [code |-> statusCode,
       message |-> IF nodeEnv = "production" /\ statusCode = 500
                   THEN "Internal server error" ELSE message,
       stack |-> nodeEnv = "development"]

\* The errors that reach errorHandler: a database error (no statusCode), the
\* error of notFound, errors with a statusCode or a classified name.
Errors ==
  {Err(c, m, n) : c \in {0, 404, 500},
                  m \in {"", "Duplicate entry 'new@stcc' for key 'admins.email'"},
                  n \in {"Error", "ValidationError", "UnauthorizedError", "CastError"}}

\* A request that ends in next(error); NODE_ENV is the same for every
\* request of a run.
Fail(limit) ==
  \E err \in Errors, nodeEnv \in Modes :
    /\ resp.route = "error" => nodeEnv = resp.input.nodeEnv
    /\ LET r == errorHandler(err, nodeEnv)
       IN  Answered([Reply(r.code, r.message) EXCEPT
                       !.route = "error", !.input = [err |-> err, nodeEnv |-> nodeEnv],
                       !.data = [stack |-> r.stack]], limit)

NextErrors == Fail(MaxReqs + 1)

SpecErrors == Init /\ [][NextErrors]_vars

\* C24: an error answered with status 500 carries the message "Internal
\* server error" in every mode other than development, and the response
\* carries the stack trace only when NODE_ENV is development.
C24_MessageGenericOutsideDevelopment ==
  resp.route = "error" =>
    /\ (resp.code = 500 /\ resp.input.nodeEnv # "development") =>
         resp.message = "Internal server error"
    /\ resp.data.stack => resp.input.nodeEnv = "development"

\* ------------------------------------------------------------------ requests that race on a key
\* register, the category handlers and the category_id of an item, await by
\* await, for two requests in flight at once.

\* Variants of the keys below that refuse nothing.
DupEmailNever(adm, email) == FALSE
DupSlugNever(cats, id, slug) == FALSE
NoReferencedRowNever(cats, category_id) == FALSE

\* admins.email UNIQUE: an INSERT of this email is refused (ER_DUP_ENTRY).
DupEmail(adm, email) == \E i \in DOMAIN adm : adm[i].email = email

\* categories.slug UNIQUE: row id taking this slug is refused (ER_DUP_ENTRY).
DupSlug(cats, id, slug) == \E c \in DOMAIN cats \ {id} : cats[c].slug = slug

\* FOREIGN KEY (category_id) REFERENCES categories(id) ON DELETE RESTRICT:
\* a DELETE of a category that an item references is refused
\* (ER_ROW_IS_REFERENCED_2), and so is an item row whose category_id has no
\* category (ER_NO_REFERENCED_ROW_2).
Restricted(n, id) == \E i \in DOMAIN n : n[i].category_id = id
NoReferencedRow(cats, category_id) == category_id \notin DOMAIN cats

\* The requests that race: arg is the email or the slug of the body ("": no
\* slug), cat the category_id of the body (0: none).
RaceRequest(op, id, arg, cat) == [op |-> op, id |-> id, arg |-> arg, cat |-> cat]
RaceRequests ==
  {RaceRequest("register", 0, e, 0) : e \in {"new@stcc", "New@stcc"}} \cup
  {RaceRequest("categories.create", 0, g, 0) : g \in {"news", "sports"}} \cup
  {RaceRequest("categories.update", c, g, 0) : c \in 1..2, g \in {"", "news", "sports"}} \cup
  {RaceRequest("categories.delete", c, "", 0) : c \in 1..2} \cup
  {RaceRequest("news.create", 0, "", c) : c \in {1, 3}} \cup
  {RaceRequest("news.update", 1, "", c) : c \in 0..3}

\* One step of a request: what it leaves in the tables, and its response
\* when the step ends the request. (found: updateCategory read the slug of
\* the body as the category's own, updateData.slug === existingCategory.slug)
Raced(p, pr, cats, adm, n) ==
  /\ procs' = [procs EXCEPT ![p] = pr]
  /\ categories' = cats
  /\ nextCategoryId' = IF nextCategoryId \in DOMAIN cats THEN nextCategoryId + 1
                       ELSE nextCategoryId
  /\ admins' = adm
  /\ news' = n
  /\ nextNewsId' = IF nextNewsId \in DOMAIN n THEN nextNewsId + 1 ELSE nextNewsId
  /\ resp' = IF pr.pc = "done"
             THEN [Reply(pr.code, "") EXCEPT
                     !.route = pr.op, !.id = pr.id, !.before = Stored,
                     !.input = [arg |-> pr.arg, cat |-> pr.cat, own |-> pr.found]]
             ELSE resp
  /\ UNCHANGED <<images, disk, nextImageId, nextFile, reqs, unlinkFailed, prev, last>>

\* A step that reads only.
Read(p, pr) == Raced(p, pr, categories, admins, news)

\* The first await of each handler: Admin.findByEmail, Category.findBySlug,
\* Category.findById, NewsAndEvents.findById.
FirstRead(p) ==
  /\ procs[p].pc = "idle"
  /\ \E q \in RaceRequests :
       LET pr == [Idle EXCEPT !.op = q.op, !.id = q.id, !.arg = q.arg, !.cat = q.cat]
           answer(code) == [pr EXCEPT !.pc = "done", !.code = code]
           goto(pc) == [pr EXCEPT !.pc = pc]
       IN  Read(p,
             CASE q.op = "register" ->
                    IF findByEmail(normalizeEmail(q.arg)) # {} THEN answer(400)
                    ELSE goto("write")
               [] q.op = "categories.create" ->
                    IF findBySlug(q.arg) # {} THEN answer(400) ELSE goto("write")
               [] q.op = "categories.update" ->
                    IF q.id \notin DOMAIN categories THEN answer(404)
                    ELSE IF q.arg # "" /\ q.arg # categories[q.id].slug THEN goto("slug")
                    ELSE [goto("write") EXCEPT !.found = (q.arg # "")]
               [] q.op = "categories.delete" ->
                    IF q.id \notin DOMAIN categories THEN answer(404) ELSE goto("write")
               [] q.op = "news.create" ->
                    IF q.cat \notin DOMAIN categories THEN answer(404) ELSE goto("write")
               [] OTHER ->
                    IF q.id \notin DOMAIN news THEN answer(404)
                    ELSE IF q.cat # 0 THEN goto("category")
                    ELSE goto("write"))

\* The second await of updateCategory (Category.findBySlug) and of
\* updateNewsAndEvents (Category.findById).
SecondRead(p) ==
  LET pr == procs[p]
  IN  \/ /\ pr.pc = "slug"
         /\ Read(p, IF findBySlug(pr.arg) # {} THEN [pr EXCEPT !.pc = "done", !.code = 400]
                    ELSE [pr EXCEPT !.pc = "write"])
      \/ /\ pr.pc = "category"
         /\ Read(p, IF pr.cat \notin DOMAIN categories
                    THEN [pr EXCEPT !.pc = "done", !.code = 404]
                    ELSE [pr EXCEPT !.pc = "write"])

\* The write of each handler and its response: Admin.create, Category.create,
\* Category.update, Category.delete, NewsAndEvents.create, NewsAndEvents.update.
\* An error no catch classifies goes to errorHandler. (racy: a key refused
\* the write after the handler's own check had passed)
Write(p) ==
  LET pr == procs[p]
      answer(code) == [pr EXCEPT !.pc = "done", !.code = code]
      refused(code) == [pr EXCEPT !.pc = "done", !.code = code, !.racy = TRUE]
      thrown == errorHandler(Err(0, "database error", "Error"), "").code
      email == normalizeEmail(pr.arg)
  IN  /\ pr.pc = "write"
      /\ CASE pr.op = "register" ->
                IF DupEmail(admins, email)
                THEN Raced(p, refused(thrown), categories, admins, news)
                ELSE Raced(p, answer(201), categories,
                           Append(admins, [email |-> email, name |-> "admin",
                                           password |-> "hash"]), news)
           [] pr.op = "categories.create" ->
                IF DupSlug(categories, nextCategoryId, pr.arg)
                THEN Raced(p, refused(400), categories, admins, news)
                ELSE Raced(p, answer(201),
                           [c \in DOMAIN categories \cup {nextCategoryId} |->
                              IF c = nextCategoryId THEN [slug |-> pr.arg]
                              ELSE categories[c]], admins, news)
           [] pr.op = "categories.update" ->
                IF pr.arg = "" \/ pr.id \notin DOMAIN categories
                THEN Raced(p, answer(200), categories, admins, news)
                ELSE IF DupSlug(categories, pr.id, pr.arg)
                THEN Raced(p, refused(400), categories, admins, news)
                ELSE Raced(p, answer(200), [categories EXCEPT ![pr.id].slug = pr.arg],
                           admins, news)
           [] pr.op = "categories.delete" ->
                IF pr.id \notin DOMAIN categories
                THEN Raced(p, answer(400), categories, admins, news)
                ELSE IF Restricted(news, pr.id)
                THEN Raced(p, answer(thrown), categories, admins, news)
                ELSE Raced(p, answer(200),
                           [c \in DOMAIN categories \ {pr.id} |-> categories[c]],
                           admins, news)
           [] pr.op = "news.create" ->
                IF NoReferencedRow(categories, pr.cat)
                THEN Raced(p, refused(400), categories, admins, news)
                ELSE Raced(p, [answer(201) EXCEPT !.id = nextNewsId], categories, admins,
                           insertNews(news, nextNewsId, pr.cat, Null, "undefined", 1))
           [] OTHER ->
                IF pr.id \notin DOMAIN news
                THEN Raced(p, answer(thrown), categories, admins, news)
                ELSE IF pr.cat # 0 /\ NoReferencedRow(categories, pr.cat)
                THEN Raced(p, refused(400), categories, admins, news)
                ELSE Raced(p, answer(200), categories, admins,
                           update(news, pr.id, pr.cat, Undefined, "undefined"))

\* The item the racing requests refer to is created beforehand.
SeedItem ==
  /\ \A p \in Procs : procs[p].pc = "idle"
  /\ Create({Req(NoCover, NoImages, c, "none") : c \in 1..2}, 1)

NextRace ==
  \/ SeedItem
  \/ \E p \in Procs : FirstRead(p) \/ SecondRead(p) \/ Write(p)

SpecRace == Init /\ [][NextRace]_vars

\* C21: when two registrations of the same email are in flight at once and
\* both are answered, there is exactly one admin row for the email and each
\* of them is answered 201 or with a 4xx code, never 500.
C21_ConcurrentRegistrationConflictIs400 ==
  \A p, q \in Procs :
    (/\ p # q
     /\ procs[p].op = "register" /\ procs[q].op = "register"
     /\ procs[p].pc = "done" /\ procs[q].pc = "done"
     /\ normalizeEmail(procs[p].arg) = normalizeEmail(procs[q].arg))
      => /\ Cardinality(findByEmail(normalizeEmail(procs[p].arg))) = 1
         /\ procs[p].code \in {201} \cup (400..499)
         /\ procs[q].code \in {201} \cup (400..499)

\* C22: no two categories have the same slug; a create or an update that
\* would give a second category a slug is answered 400 and changes no
\* category; an update with the slug that is the category's own, when the
\* handler reads it and when it writes, is answered 200.
C22_SlugsStayUnique ==
  /\ \A a, b \in DOMAIN categories : a # b => categories[a].slug # categories[b].slug
  /\ resp.route \in {"categories.create", "categories.update"} =>
       LET old == resp.before.categories
           there == resp.route = "categories.create" \/ resp.id \in DOMAIN old
       IN  /\ (there /\ DupSlug(old, resp.id, resp.input.arg)) =>
                resp.code = 400 /\ categories = old
           /\ (/\ resp.route = "categories.update" /\ resp.input.own
               /\ resp.id \in DOMAIN old
               /\ old[resp.id].slug = resp.input.arg) =>
                resp.code = 200 /\ categories = old

\* C22 happens: two creates of a new slug passed their checks, and the
\* second INSERT was refused and answered 400.
C22_Witness ==
  /\ resp.route = "categories.create" /\ resp.code = 400
  /\ \E p \in Procs :
       procs[p].op = "categories.create" /\ procs[p].racy /\ procs[p].arg = "sports"
  /\ Cardinality(findBySlug("sports")) = 1

\* C23: the category_id of every item is the id of a category; a delete of
\* a category that an item references fails and changes nothing; a create
\* or an update of an item with a category_id that no category has is
\* answered with a 4xx code and changes no item.
C23_ItemCategoryExists ==
  /\ \A i \in DOMAIN news : news[i].category_id \in DOMAIN categories
  /\ (/\ resp.route = "categories.delete"
      /\ resp.id \in DOMAIN resp.before.categories
      /\ Restricted(resp.before.news, resp.id))
       => /\ resp.code >= 400
          /\ categories = resp.before.categories
          /\ news = resp.before.news
  /\ (/\ resp.route \in {"news.create", "news.update"}
      /\ resp.input.cat # 0
      /\ resp.input.cat \notin DOMAIN resp.before.categories)
       => /\ resp.code \in 400..499
          /\ news = resp.before.news

\* C23 happens: a category was deleted between the check of a create and its
\* INSERT, which was refused and answered 400.
C23_Witness ==
  /\ resp.route = "news.create" /\ resp.code = 400
  /\ \E p \in Procs : procs[p].op = "news.create" /\ procs[p].racy /\ procs[p].cat = 1
  /\ 1 \notin DOMAIN categories

\* The passwords of the admins: the hashes stored, and the plaintexts they
\* are the hashes of.
Secrets ==
  {admins[i].password : i \in DOMAIN admins} \cup
  {w \in Passwords : \E i \in DOMAIN admins : admins[i].password = hash(w)}

\* The rows, payloads and validation errors of a response.
Returned ==
  Range(resp.data.admins) \cup Range(resp.data.token) \cup Range(resp.data.errors)

\* C25: no response of register, login, profile read, profile update or the
\* list of all admins has a password column, or the password of an admin or
\* its hash as a value.
C25_NoPasswordInResponses ==
  (\/ resp.route \in {"admin.register", "admin.login"}
   \/ resp.route \in {"admin.profile", "admin.updateProfile", "admin.all"} /\ resp.ran)
    => \A row \in Returned :
         /\ "password" \notin DOMAIN row
         /\ \A c \in DOMAIN row \ {"id"} : row[c] \notin Secrets

\* C26: a PUT /api/admin/profile, whatever its body, leaves the email of
\* every admin and the whole row of every admin but the caller as they were,
\* and adds or removes no admin.
C26_ProfileUpdateKeepsEmail ==
  (resp.route = "admin.updateProfile" /\ resp.ran) =>
    /\ DOMAIN admins = DOMAIN resp.before.admins
    /\ \A i \in DOMAIN admins :
         /\ admins[i].email = resp.before.admins[i].email
         /\ i # resp.header.id => admins[i] = resp.before.admins[i]

\* C26 happens: a body with an email, a name and a password was accepted,
\* and the caller's name and password changed.
C26_Witness ==
  /\ resp.route = "admin.updateProfile" /\ resp.code = 200
  /\ resp.input.email = "evil@stcc"
  /\ admins[resp.header.id].name = "renamed"
  /\ admins[resp.header.id].password = hash("Other2")
  /\ admins[resp.header.id] # resp.before.admins[resp.header.id]


\* ------------------------------------------------------------------ filtered lists
\* Items are created and switched between active and inactive, and the two
\* list routes are read with filters on category_id, status and date_time.
FilterQueries ==
  [page : {Absent, Num(2)}, limit : {Absent, Num(1)}, status : {"", "active"},
   category_id : {0, 1}, date_from : 0..MaxItems, date_to : 0..MaxItems]

GetFiltered(limit) ==
  \E q \in FilterQueries :
    \/ Answered([getAllNewsAndEvents(q) EXCEPT !.route = "list", !.query = q], limit)
    \/ Answered([getActiveNewsAndEvents(q) EXCEPT !.route = "public", !.query = q], limit)

NextFilter ==
  \/ PostStatus(MaxReqs + 1)
  \/ PutStatus(MaxReqs + 1)
  \/ GetFiltered(MaxReqs + 1)

SpecFilter == Init /\ [][NextFilter]_vars

\* The filters a list response was computed with.
FiltersOf(r) == IF r.route = "public" THEN [r.query EXCEPT !.status = "active"] ELSE r.query

\* C28: the totalItems of a list response is the number of rows findAll
\* returns for the same filters without limit and offset.
C28_TotalItemsCountsFilteredRows ==
  (resp.route \in {"list", "public"} /\ resp.code = 200) =>
    resp.data.totalItems = Len(findAll(FiltersOf(resp), Cardinality(DOMAIN news), 0))

\* ------------------------------------------------------------------ failing creates
\* Items are created with and without images while the INSERT of the item
\* or the last INSERT of createMultiple may fail, and items are deleted.
FaultyCreateInputs ==
  {Req(NoCover, i, 1, f) : i \in SomeImages \cup {NoImages}, f \in {"none", "db", "insert"}} \cup
  {Req(FileCover, NoImages, k, "none") : k \in {1, 3}}

NextCreate ==
  \/ Create(FaultyCreateInputs, MaxReqs + 1)
  \/ Delete(MaxReqs + 1)

SpecCreate == Init /\ [][NextCreate]_vars

\* C30: a create request that ends in an error response leaves the tables
\* as they were: no item row and no image row of it is persisted.
C30_FailedCreateLeavesNothing ==
  (last.op = "create" /\ last.code >= 400) =>
    news = last.oldNews /\ images = last.oldRows

\* ------------------------------------------------------------------ formatDateTimeForMySQL
\* A value handed to formatDateTimeForMySQL. type is what typeof tells of it
\* ("null" and "undefined" for the two empty values). A string is described
\* by its form: "empty" (""), "blank" (only whitespace), "text" (words that
\* are no date), "iso" (2025-MM-DDTHH:00:00Z) or "mysql" (2025-MM-DD HH:00:00),
\* by whether whitespace surrounds it (pad), and by the numbers written in
\* its month, day and hour fields.
DateValue(type, form, pad, month, day, hour) ==
  [type |-> type, form |-> form, pad |-> pad, month |-> month, day |-> day, hour |-> hour]
NoDate(type) == DateValue(type, "", FALSE, 0, 0, 0)

\* The days of a month of 2025.
DaysIn(month) == IF month = 2 THEN 28 ELSE IF month \in {4, 6, 9, 11} THEN 30 ELSE 31

\* The fields denote a date and a time of the calendar.
ValidDateTime(v) ==
  /\ v.month \in 1..12
  /\ v.day \in 1..DaysIn(v.month)
  /\ v.hour \in 0..23

\* String.prototype.trim
trim(v) == IF v.form = "blank" THEN [v EXCEPT !.form = "empty"] ELSE [v EXCEPT !.pad = FALSE]

\* /^\d{4}-\d{2}-\d{2} \d{2}:\d{2}:\d{2}$/.test(v): the shape alone, every
\* field of the forms "iso" and "mysql" being written with two digits.
MySQLShaped(v) == v.form = "mysql" /\ ~v.pad

\* new Date(v) of a trimmed string: the set of the values it can have, a
\* date in UTC or "Invalid Date". A day that the month does not have, up
\* to 31, is rejected by the ECMAScript date-time format and rolled over
\* into the next month by engines that accept it.
InvalidDate == NoDate("Invalid Date")
NewDate(v) ==
  IF v.form # "iso" \/ v.month \notin 1..12 \/ v.day \notin 1..31 \/ v.hour \notin 0..23
  THEN {InvalidDate}
  ELSE IF v.day <= DaysIn(v.month) THEN {DateValue("Date", "", FALSE, v.month, v.day, v.hour)}
  ELSE {InvalidDate,
        DateValue("Date", "", FALSE, v.month + 1, v.day - DaysIn(v.month), v.hour)}

\* What a call of formatDateTimeForMySQL ends in: a returned value or a
\* thrown Error, named by the fixed part of its message.
Returns(v) == [threw |-> FALSE, error |-> "", value |-> v]
Throws(error) == [threw |-> TRUE, error |-> error, value |-> NoDate("undefined")]

\* formatDateTimeForMySQL(dateTimeString): the set of its outcomes.
formatDateTimeForMySQL(v) ==
  IF v.type \in {"null", "undefined"} THEN {Returns(v)}
  ELSE IF v.type # "string" THEN {Throws("Expected string")}
  ELSE IF trim(v).form = "empty" THEN {Throws("Empty datetime string is not allowed")}
  ELSE IF MySQLShaped(trim(v)) THEN {Returns(trim(v))}
  ELSE {IF d = InvalidDate THEN Throws("Invalid datetime format")
        ELSE Returns(DateValue("string", "mysql", FALSE, d.month, d.day, d.hour)) :
          d \in NewDate(trim(v))}

\* The values the function is applied to: strings, and a number of a JSON
\* body. Its callers hand it neither null nor undefined (create throws
\* "date_time is required", update skips an undefined date_time, findAll
\* tests the filters for non-blank strings).
DateStrings ==
  {DateValue("string", f, FALSE, 0, 0, 0) : f \in {"empty", "blank", "text"}} \cup
  {DateValue("string", f, pad, m, d, h) :
     f \in {"iso", "mysql"}, pad \in BOOLEAN, m \in {1, 2, 13}, d \in {1, 30, 32}, h \in {0, 25}}
DateInputs == DateStrings \cup {NoDate("number")}

Format(limit) ==
  \E v \in DateInputs : \E out \in formatDateTimeForMySQL(v) :
    Answered([Reply(0, "") EXCEPT !.route = "format", !.input = v, !.data = out], limit)

NextDates == Format(MaxReqs + 1)

SpecDates == Init /\ [][NextDates]_vars

\* C29: the function throws for an empty or whitespace-only string, for a
\* value that is no string, and for a string that denotes no date and time
\* of the calendar (one of the MySQL shape with a field out of range
\* included), with an error of its own for each of the three; every value it
\* returns for a string is a valid date and time in the MySQL form.
C29_RejectsWhatIsNoDateTime ==
  resp.route = "format" =>
    LET v == resp.input
        out == resp.data
    IN  /\ (v.type = "string" /\ v.form \in {"empty", "blank"}) =>
              out.threw /\ out.error = "Empty datetime string is not allowed"
        /\ v.type # "string" => out.threw /\ out.error = "Expected string"
        /\ (v.type = "string" /\ v.form \notin {"empty", "blank"}
              /\ ~(v.form \in {"iso", "mysql"} /\ ValidDateTime(v))) =>
              out.threw /\ out.error = "Invalid datetime format"
        /\ (v.type = "string" /\ ~out.threw) =>
              /\ out.value.type = "string" /\ MySQLShaped(out.value)
              /\ ValidDateTime(out.value)
====
